---- MODULE Spec2Model ----
(***************************************************************************)
(* MAX17048 fuel-gauge driver (drivers/power/max17048_battery.c).          *)
(*                                                                         *)
(* The driver is modelled as a set of flows that share one max17048_chip   *)
(* record and one chip register file:                                      *)
(*   "work"  - the periodic sampler max17048_work                          *)
(*   "irq"   - the threaded interrupt handler max17048_irq                 *)
(*   "ext"   - an external caller: max17048_battery_status,                *)
(*             max17048_get_property(VOLTAGE_OCV), max17048_check_battery, *)
(*             max17048_shutdown, max17048_suspend, max17048_resume        *)
(*   "probe" - max17048_probe with max17048_initialize and                 *)
(*             max17048_load_model_data                                    *)
(* Every register access goes through max17048_read_word /                 *)
(* max17048_write_word / max17048_write_block.  A transport call is two    *)
(* steps: Lock (mutex_lock and the shutdown_complete test, passed) and the *)
(* return of the call (the i2c transaction's result or -ENODEV, and        *)
(* mutex_unlock), which is the first part of the caller's step that runs   *)
(* up to its next transport call.                                          *)
(*                                                                         *)
(* Specifications:                                                         *)
(*   Spec       - sampler, alert handler, OCV queries and shutdown         *)
(*   SpecInit   - max17048_probe on an unconfigured chip                   *)
(*   SpecAlert  - the alert handler with every alert flag                  *)
(*   SpecStatus - the sampler and max17048_battery_status                  *)
(*   SpecRcomp  - the sampler over a range of temperatures and RCOMP       *)
(*                configurations                                           *)
(*   SpecPolicy - the sampler over every ascending policy table            *)
(*   SpecSoc    - the sampler and max17048_battery_status over both        *)
(*                precision settings                                       *)
(*   SpecInitQuery - max17048_probe with max17048_check_battery            *)
(*   SpecConfig - sampler and alert handler on a bus without failures      *)
(*   SpecSuspend - the sampler with max17048_suspend / max17048_resume     *)
(*   SpecFlags  - the alert handler with a flag that is only logged        *)
(*   SpecShutdown - the sampler with max17048_shutdown                     *)
(*   SpecAlertFair, SpecStatusFair - SpecAlert and SpecStatus with the     *)
(*                fairness of the kernel's scheduling                      *)
(***************************************************************************)
EXTENDS Integers, Sequences, FiniteSets, TLC

(***************************************************************************)
(* Register map and program constants.                                     *)
(***************************************************************************)
MAX17048_VCELL == 2
MAX17048_SOC == 4
MAX17048_VER == 8
MAX17048_HIBRT == 10
MAX17048_CONFIG == 12
MAX17048_OCV == 14
MAX17048_VALRT == 20
MAX17048_VRESET == 24
MAX17048_STATUS == 26
MAX17048_UNLOCK == 62
MAX17048_TABLE == 64
MAX17048_RCOMPSEG1 == 128
MAX17048_RCOMPSEG2 == 144
MAX17048_UNLOCK_VALUE == 19031
MAX17048_BATTERY_FULL == 100
MAX17048_BATTERY_LOW == 15
MAX17048_BATTERY_HOT == 60000
MAX17048_BATTERY_COLD == -10000
MAX17048_VERSION_NO_11 == 17
MAX17048_VERSION_NO_12 == 18
MAX17048_STATUS_RI == 256
MAX17048_STATUS_VH == 512
MAX17048_STATUS_VL == 1024
MAX17048_STATUS_VR == 2048
MAX17048_STATUS_HD == 4096
MAX17048_STATUS_SC == 8192
MAX17048_STATUS_ENVR == 16384
MAX17048_CONFIG_ALRT == 32
\* -ENODEV, returned by the transport once shutdown_complete is set
ENODEV == -19
\* the negative errno of a failed i2c_smbus_* transaction
EIO == -5

(***************************************************************************)
(* Fixed-width integer arithmetic.                                         *)
(***************************************************************************)
U8(x) == x % 256
U16(x) == x % 65536
\* swab16(): exchange the two bytes of a 16-bit word
Swab16(x) == (U16(x) % 256) * 256 + (U16(x) \div 256)
\* bit m (a power of two) of the non-negative x
Bit(x, m) == (x \div m) % 2
\* x & ~m for one bit m
\* a mask operation that clears nothing
KeepBit(x, m) == x

ClrBit(x, m) == x - Bit(x, m) * m
RECURSIVE BitOr(_, _)
BitOr(a, b) == IF a = 0 THEN b
               ELSE IF b = 0 THEN a
               ELSE (IF a % 2 = 1 \/ b % 2 = 1 THEN 1 ELSE 0)
                    + 2 * BitOr(a \div 2, b \div 2)
\* C division of signed integers truncates toward zero (div64_s64)
TruncDiv(a, b) == IF a >= 0 THEN a \div b ELSE -((-a) \div b)
Abs(x) == IF x < 0 THEN -x ELSE x

(***************************************************************************)
(* Configuration (max17048_platform_data and its max17048_battery_model).  *)
(* The values come from the device tree or board file; the ones below are  *)
(* one representative battery.  valert holds valert-max in its low byte    *)
(* and valert-min in its high byte (max17048_parse_dt).                    *)
(***************************************************************************)
ModelData(bits) ==
    [bits |-> bits,
     alert_threshold |-> 4,
     one_percent_alerts |-> 64,
     valert |-> BitOr((4300 \div 20) % 256, ((3400 \div 20) % 256) * 256),
     vreset |-> BitOr((((2800 \div 40) % 256) \div 2) * 2 * 256, 0),
     hibernate |-> 128 * 256 + 48,
     rcomp |-> 100,
     rcomp_seg |-> 128,
     soccheck_A |-> 40,
     soccheck_B |-> 60,
     ocvtest |-> 55952,
     t_co_hot |-> -1225,
     t_co_cold |-> -5400,
     data_tbl |-> [i \in 1..64 |-> (i * 3) % 256]]

PlatformData(tables) ==
    [set_current_threshold |-> tables,
     current_normal |-> 1200,
     current_threshold_soc |-> <<30, 60>>,
     current_threshold |-> <<500, 900>>,
     sysedp_throttle |-> tables,
     sysedp_throttle_soc |-> <<30, 60>>,
     sysedp_throttle_power |-> <<3000, 6000>>]

\* unsigned int power = ULONG_MAX: all 32 bits set, written here as the
\* signed number with that bit pattern
ULONG_MAX == -1

(***************************************************************************)
(* The environment: the values the volatile registers and the thermal zone *)
(* deliver, the alert flags the chip raises, and whether i2c transactions  *)
(* can fail.  A specification fixes its environment in its initial state.  *)
(***************************************************************************)
\* raw MAX17048_SOC words: 0%, 10%, 50%, 100% and 200% in 18-bit mode
SocRaws == {0, 2560, 12800, 25600, 51200}
\* raw MAX17048_VCELL words
VcellRaws == {4096}
\* thermal zone readings, in millidegrees Celsius
Temps == {20000, 61000}
\* STATUS flags the chip sets
AlertFlags == {MAX17048_STATUS_VL, MAX17048_STATUS_HD, MAX17048_STATUS_SC}

Flows == {"work", "irq", "ext", "probe"}
NoFlow == "none"

VARIABLES
    chip,           \* struct max17048_chip: the shared DeviceState
    mutex,          \* chip->mutex: the flow that holds it, or NoFlow
    mdata,          \* chip->pdata->model_data
    pdata,          \* chip->pdata
    regs,           \* the chip's registers, by address
    pc,             \* each flow's position: <<block, label>>
    phase,          \* "run": own code; "call": at mutex_lock; "bus": in i2c
    req,            \* each flow's pending transport request
    ret,            \* the transport call that returned in the last step
    inBus,          \* the flows inside an i2c_smbus_* transaction
    irq_val,        \* max17048_irq: u16 val
    ext_val,        \* max17048_battery_status: the status it stored
    event,          \* the calls out of the driver made by the last step
    work_pending,   \* the delayed work is queued
    work_canceling, \* cancel_delayed_work_sync is in progress
    irq_pending,    \* an ALRT edge awaits delivery
    irq_enabled,    \* the interrupt is requested and enabled
    env,            \* what the battery, the thermal zone and the bus deliver
    faults,         \* the number of i2c transactions that have failed
    buslog,         \* the bus transactions issued by max17048_probe
    probe           \* what max17048_probe has set up, and its return value

vars == <<chip, mutex, mdata, pdata, regs, pc, phase, req, ret, inBus,
          irq_val, ext_val, event, work_pending, work_canceling,
          irq_pending, irq_enabled, env, faults, buslog, probe>>

sched == <<work_pending, work_canceling, irq_pending, irq_enabled>>
config == <<mdata, pdata, env>>
\* what a step that is no part of a transport call leaves alone
bus == <<mutex, regs, inBus, faults, buslog>>

(***************************************************************************)
(* The chip.  MAX17048_SOC and MAX17048_VCELL change with the battery; a   *)
(* read of MAX17048_OCV delivers 0xFFFF while model access is locked.      *)
(***************************************************************************)
WordRegs == {MAX17048_VER, MAX17048_HIBRT, MAX17048_CONFIG, MAX17048_OCV,
             MAX17048_VALRT, MAX17048_VRESET, MAX17048_STATUS,
             MAX17048_UNLOCK}
BlockRegs == {MAX17048_TABLE, MAX17048_TABLE + 16, MAX17048_TABLE + 32,
              MAX17048_TABLE + 48, MAX17048_RCOMPSEG1, MAX17048_RCOMPSEG2}

ChipRead(reg) ==
    IF reg = MAX17048_SOC THEN env.socs
    ELSE IF reg = MAX17048_VCELL THEN VcellRaws
    ELSE IF reg = MAX17048_OCV
         THEN {regs[reg], 65535}
    ELSE {regs[reg]}

Rd(reg) == [kind |-> "read", reg |-> reg, val |-> 0, bytes |-> <<>>]
Wr(reg, v) == [kind |-> "write", reg |-> reg, val |-> v, bytes |-> <<>>]
Blk(reg, b) == [kind |-> "block", reg |-> reg, val |-> 0, bytes |-> b]
NoReq == [kind |-> "none", reg |-> 0, val |-> 0, bytes |-> <<>>]

\* no transport call returned in the step
NoRet == [flow |-> NoFlow, val |-> 0]

\* the step called neither power_supply_changed() nor a platform callback
NoEvent == [notify |-> NoFlow, threshold |-> 0, min_cpu |-> 0, power |-> 0,
            cb_ret |-> 0]
\* the step called power_supply_changed()
Notify(f) == [NoEvent EXCEPT !.notify = f]

\* a flow continues with its own code at label p
Go(f, p) ==
    /\ pc' = [pc EXCEPT ![f] = p]
    /\ phase' = [phase EXCEPT ![f] = "run"]
    /\ req' = [req EXCEPT ![f] = NoReq]

\* a flow enters a transport function with request r; p is where it returns
Call(f, p, r) ==
    /\ pc' = [pc EXCEPT ![f] = p]
    /\ phase' = [phase EXCEPT ![f] = "call"]
    /\ req' = [req EXCEPT ![f] = r]

\* flow f runs its own code at label p
At(f, p) == pc[f] = p /\ phase[f] = "run"

\* a step of a flow's own code: no transport call returns in it
Own == ret' = NoRet /\ UNCHANGED bus

(***************************************************************************)
(* RegisterTransport: max17048_write_word, max17048_write_block,           *)
(* max17048_read_word.  A call is two steps: Lock, and the return of the   *)
(* call into the caller's code (Returns), which is part of the caller's    *)
(* step that continues up to its next transport call.                      *)
(***************************************************************************)
\* a transport that never tests the shutdown flag
FencedNever == FALSE

\* if (chip && chip->shutdown_complete)
Fenced == chip.shutdown_complete

\* mutex_lock() returns only when no other flow holds the mutex
MutexFree == mutex = NoFlow

\* a transport whose failure path returns without mutex_unlock()
ReleasedOnSuccess(f, failed) == IF failed THEN f ELSE NoFlow

\* the mutex holder after the call: every exit path unlocks
Released(f, failed) == NoFlow

\* mutex_lock() and the shutdown test, passed: the i2c transaction begins
Lock(f) ==
    /\ phase[f] = "call"
    /\ MutexFree
    /\ ~Fenced
    /\ mutex' = f
    /\ inBus' = inBus \cup {f}
    /\ phase' = [phase EXCEPT ![f] = "bus"]
    /\ ret' = NoRet
    /\ event' = NoEvent
    /\ UNCHANGED <<chip, config, regs, pc, req, irq_val, ext_val, sched,
                   faults, buslog, probe>>

\* the value a successful transaction returns: the word is byte-swapped on
\* the wire and swab16() turns it back
XferResult(r, v) ==
    IF r.kind = "read" THEN Swab16(U16(Swab16(v))) ELSE 0

\* the register file after a successful transaction
XferRegs(r) ==
    IF r.kind = "write"
    THEN [regs EXCEPT ![r.reg] = Swab16(Swab16(U16(r.val)))]
    ELSE IF r.kind = "block"
    THEN [regs EXCEPT ![r.reg] = r.bytes]
    ELSE regs

\* the ways flow f's transport call can return: -ENODEV without a bus
\* transaction when fenced, else the transaction's failure or success
Outcomes(f) ==
    IF phase[f] = "call"
    THEN IF MutexFree /\ Fenced
         THEN {[val |-> ENODEV, regs |-> regs, hold |-> Released(f, TRUE),
                bus |-> FALSE]}
         ELSE {}
    ELSE IF phase[f] = "bus"
    THEN (IF faults < env.faults
          THEN {[val |-> EIO, regs |-> regs, hold |-> Released(f, TRUE),
                 bus |-> TRUE]}
          ELSE {})
         \cup {[val |-> XferResult(req[f], v), regs |-> XferRegs(req[f]),
                hold |-> Released(f, FALSE), bus |-> TRUE] :
               v \in (IF req[f].kind = "read" THEN ChipRead(req[f].reg)
                      ELSE {0})}
    ELSE {}

\* flow f's transport call, made from label p, returns with outcome o
Returns(f, p, o) ==
    /\ pc[f] = p
    /\ o \in Outcomes(f)
    /\ regs' = o.regs
    /\ mutex' = o.hold
    /\ inBus' = inBus \ {f}
    /\ ret' = [flow |-> f, val |-> o.val]
    /\ faults' = IF o.bus /\ o.val = EIO THEN faults + 1 ELSE faults
    /\ buslog' = IF f = "probe" /\ o.bus THEN Append(buslog, req[f])
                 ELSE buslog

(***************************************************************************)
(* Pure parts of the sampler.                                              *)
(***************************************************************************)
\* max17048_get_vcell: chip->vcell = (uint16_t)(((vcell >> 4) * 125) / 100)
VcellMilli(raw) == U16(((raw \div 16) * 125) \div 100)

\* a conversion that ignores the precision setting
InternalSocByte(bits, raw) == U16(raw) \div 256

\* max17048_get_soc: (uint16_t)soc >> 8 for 18 bits, >> 9 otherwise
InternalSoc(bits, raw) ==
    IF bits = 18 THEN U16(raw) \div 256 ELSE U16(raw) \div 512

\* max17048_get_soc: chip->internal_soc and chip->soc after the read
SocStored(c, bits, r) ==
    LET c1 == IF r < 0 THEN c
              ELSE [c EXCEPT !.internal_soc = InternalSoc(bits, r)]
    IN [c1 EXCEPT !.soc = c1.internal_soc]

\* max17048_get_soc: the three-way derivation of status, soc, level, health
SocDerived(c) ==
    IF c.internal_soc >= MAX17048_BATTERY_FULL
    THEN [c EXCEPT !.status = IF c.status = "Charging" THEN "Full"
                              ELSE c.status,
                   !.soc = MAX17048_BATTERY_FULL,
                   !.capacity_level = "Full",
                   !.health = "Good"]
    ELSE IF c.soc < MAX17048_BATTERY_LOW
    THEN [c EXCEPT !.status = c.lasttime_status,
                   !.health = "Dead",
                   !.capacity_level = "Critical"]
    ELSE [c EXCEPT !.status = c.lasttime_status,
                   !.health = "Good",
                   !.capacity_level = "Normal"]

\* a scan that takes the first entry with isoc <= soc[i], zero or not
RECURSIVE FirstMatchAnyValue(_, _, _, _)
FirstMatchAnyValue(socs, values, isoc, i) ==
    IF i > Len(socs) THEN 0
    ELSE IF isoc <= socs[i] THEN i
    ELSE FirstMatchAnyValue(socs, values, isoc, i + 1)

\* the index of the first table entry with isoc <= soc[i] and value[i] # 0
RECURSIVE FirstMatch(_, _, _, _)
FirstMatch(socs, values, isoc, i) ==
    IF i > Len(socs) THEN 0
    ELSE IF isoc <= socs[i] /\ values[i] # 0 THEN i
    ELSE FirstMatch(socs, values, isoc, i + 1)

\* max17048_set_current_threshold: the threshold and min_cpu selected
SelectThreshold(pd, isoc) ==
    LET i == FirstMatch(pd.current_threshold_soc, pd.current_threshold,
                        isoc, 1)
    IN IF i = 0 THEN [threshold |-> pd.current_normal, min_cpu |-> 2]
       ELSE [threshold |-> pd.current_threshold[i], min_cpu |-> 1]

\* max17048_sysedp_throttle: the power limit selected
SelectPower(pd, isoc) ==
    LET i == FirstMatch(pd.sysedp_throttle_soc, pd.sysedp_throttle_power,
                        isoc, 1)
    IN IF i = 0 THEN ULONG_MAX ELSE pd.sysedp_throttle_power[i]

\* max17048_set_current_threshold is active
ThresholdActive(pd) ==
    /\ pd.set_current_threshold
    /\ Len(pd.current_threshold_soc) # 0
    /\ pd.current_normal # 0

\* chip after max17048_set_current_threshold; cbok: the callback succeeded
ThresholdChip(c, pd, cbok) ==
    IF ~ThresholdActive(pd) THEN c
    ELSE LET c1 == [c EXCEPT !.current_threshold =
                        SelectThreshold(pd, c.internal_soc).threshold]
         IN IF c1.current_threshold # c1.lasttime_current_threshold /\ cbok
            THEN [c1 EXCEPT !.lasttime_current_threshold =
                                c1.current_threshold]
            ELSE c1

\* policy steps that call set_current_threshold() in every pass
PolicyCallsAlways(c, pd, cbok) ==
    LET sel == SelectThreshold(pd, c.internal_soc)
        e1 == IF ThresholdActive(pd)
              THEN [NoEvent EXCEPT !.threshold = sel.threshold,
                                   !.min_cpu = sel.min_cpu,
                                   !.cb_ret = IF cbok THEN 0 ELSE -1]
              ELSE NoEvent
    IN IF pd.sysedp_throttle
       THEN [e1 EXCEPT !.power = SelectPower(pd, c.internal_soc)]
       ELSE e1

\* the calls of the two policy steps: set_current_threshold() with the
\* threshold and min_cpu when the threshold differs from the shadow
\* (cb_ret: what it returned), and sysedp_throttle() with the power
PolicyCalls(c, pd, cbok) ==
    LET sel == SelectThreshold(pd, c.internal_soc)
        e1 == IF ThresholdActive(pd)
                 /\ sel.threshold # c.lasttime_current_threshold
              THEN [NoEvent EXCEPT !.threshold = sel.threshold,
                                   !.min_cpu = sel.min_cpu,
                                   !.cb_ret = IF cbok THEN 0 ELSE -1]
              ELSE NoEvent
    IN IF pd.sysedp_throttle
       THEN [e1 EXCEPT !.power = SelectPower(pd, c.internal_soc)]
       ELSE e1

\* new_rcomp with a division that rounds toward minus infinity
NewRcompFloor(m, temp) ==
    LET hot_temp == ((temp - 20000) * m.t_co_hot) \div 1000000
        cold_temp == ((temp - 20000) * m.t_co_cold) \div 1000000
        new_rcomp == IF temp > 20000 THEN m.rcomp + hot_temp
                     ELSE IF temp < 20000 THEN m.rcomp + cold_temp
                     ELSE m.rcomp
    IN IF new_rcomp > 255 THEN 255
       ELSE IF new_rcomp < 0 THEN 0
       ELSE new_rcomp

\* max17048_update_rcomp: new_rcomp for a temperature
NewRcomp(m, temp) ==
    LET hot_temp == TruncDiv((temp - 20000) * m.t_co_hot, 1000000)
        cold_temp == TruncDiv((temp - 20000) * m.t_co_cold, 1000000)
        new_rcomp == IF temp > 20000 THEN m.rcomp + hot_temp
                     ELSE IF temp < 20000 THEN m.rcomp + cold_temp
                     ELSE m.rcomp
    IN IF new_rcomp > 255 THEN 255
       ELSE IF new_rcomp < 0 THEN 0
       ELSE new_rcomp

\* a CONFIG word that loses the low byte that was read
RcompConfigUpper(val, new_rcomp) == new_rcomp * 256

\* max17048_update_rcomp: val &= 0xFF; val |= (new_rcomp << 8)
RcompConfig(val, new_rcomp) == BitOr(val % 256, new_rcomp * 256)

\* max17048_work: the temperature health override
HealthByTemp(c) ==
    IF c.temperature > MAX17048_BATTERY_HOT
    THEN [c EXCEPT !.health = "Overheat"]
    ELSE IF c.temperature < MAX17048_BATTERY_COLD
    THEN [c EXCEPT !.health = "Cold"]
    ELSE c

(***************************************************************************)
(* max17048_get_vcell and max17048_get_soc, called by the sampler (block   *)
(* "work") and by the HD and SC branches of the interrupt handler.         *)
(***************************************************************************)
\* max17048_get_vcell after its read; max17048_get_soc up to its read
GetVcellRet(f, blk) ==
    \E o \in Outcomes(f) :
      /\ Returns(f, <<blk, "vcell">>, o)
      /\ chip' = IF o.val < 0 THEN chip
                 ELSE [chip EXCEPT !.vcell = VcellMilli(o.val)]
      /\ Call(f, <<blk, "soc">>, Rd(MAX17048_SOC))
      /\ event' = NoEvent
      /\ UNCHANGED <<config, irq_val, ext_val, sched, probe>>

\* the stores of internal_soc and soc; the compiler may keep the store of
\* the raw soc (as written) or fold it into the derivation that follows
GetSocRet(f, blk) ==
    \E o \in Outcomes(f) :
      /\ Returns(f, <<blk, "soc">>, o)
      /\ \E folded \in BOOLEAN :
           IF folded
           THEN /\ chip' = SocDerived(SocStored(chip, mdata.bits, o.val))
                /\ Go(f, <<blk, "after">>)
           ELSE /\ chip' = SocStored(chip, mdata.bits, o.val)
                /\ Go(f, <<blk, "soc_derive">>)
      /\ event' = NoEvent
      /\ UNCHANGED <<config, irq_val, ext_val, sched, probe>>

GetSocDerive(f, blk) ==
    /\ At(f, <<blk, "soc_derive">>)
    /\ chip' = SocDerived(chip)
    /\ Go(f, <<blk, "after">>)
    /\ event' = NoEvent
    /\ Own
    /\ UNCHANGED <<config, irq_val, ext_val, sched, probe>>

(***************************************************************************)
(* StateSampler: max17048_work with max17048_update_rcomp.                 *)
(***************************************************************************)
\* the thermal zone reading, the drift test, the start of update_rcomp
WorkStartFrom(T) ==
    /\ At("work", <<"work", "idle">>)
    /\ work_pending
    /\ \E t \in T :
         IF Abs(t - chip.lasttime_temperature) >= 1500
         THEN /\ chip' = [chip EXCEPT !.temperature = t,
                                      !.lasttime_temperature = t]
              /\ Call("work", <<"work", "rcomp_read">>, Rd(MAX17048_CONFIG))
         ELSE /\ chip' = [chip EXCEPT !.temperature = t]
              /\ Call("work", <<"work", "vcell">>, Rd(MAX17048_VCELL))
    /\ work_pending' = FALSE
    /\ event' = NoEvent
    /\ Own
    /\ UNCHANGED <<config, irq_val, ext_val, work_canceling, irq_pending,
                   irq_enabled, probe>>

WorkStart == WorkStartFrom(env.temps)

\* update_rcomp after its CONFIG read: on failure no write is issued and
\* max17048_work goes on with power_supply_changed() and get_vcell
WorkRcompRead ==
    \E o \in Outcomes("work") :
      /\ Returns("work", <<"work", "rcomp_read">>, o)
      /\ IF o.val < 0
         THEN /\ Call("work", <<"work", "vcell">>, Rd(MAX17048_VCELL))
              /\ event' = Notify("work")
         ELSE /\ Call("work", <<"work", "rcomp_write">>,
                      Wr(MAX17048_CONFIG,
                         RcompConfig(o.val,
                                     NewRcomp(mdata, chip.temperature))))
              /\ event' = NoEvent
      /\ UNCHANGED <<chip, config, irq_val, ext_val, sched, probe>>

WorkRcompWrite ==
    \E o \in Outcomes("work") :
      /\ Returns("work", <<"work", "rcomp_write">>, o)
      /\ Call("work", <<"work", "vcell">>, Rd(MAX17048_VCELL))
      /\ event' = Notify("work")
      /\ UNCHANGED <<chip, config, irq_val, ext_val, sched, probe>>

\* max17048_set_current_threshold and max17048_sysedp_throttle
WorkPolicy ==
    /\ At("work", <<"work", "after">>)
    /\ \E cbok \in BOOLEAN :
         /\ chip' = ThresholdChip(chip, pdata, cbok)
         /\ event' = PolicyCalls(chip, pdata, cbok)
    /\ Go("work", <<"work", "health">>)
    /\ Own
    /\ UNCHANGED <<config, irq_val, ext_val, sched, probe>>

WorkHealth ==
    /\ At("work", <<"work", "health">>)
    /\ chip' = HealthByTemp(chip)
    /\ event' = IF chip.temperature > MAX17048_BATTERY_HOT
                   \/ chip.temperature < MAX17048_BATTERY_COLD
                THEN Notify("work") ELSE NoEvent
    /\ Go("work", <<"work", "finish">>)
    /\ Own
    /\ UNCHANGED <<config, irq_val, ext_val, sched, probe>>

\* an end of pass that re-arms only when no transfer has failed
WorkFinishUnlessFailed ==
    /\ At("work", <<"work", "finish">>)
    /\ IF chip.soc # chip.lasttime_soc \/ chip.status # chip.lasttime_status
       THEN /\ chip' = [chip EXCEPT !.lasttime_soc = chip.soc]
            /\ event' = Notify("work")
       ELSE /\ chip' = chip
            /\ event' = NoEvent
    /\ work_pending' = (~work_canceling /\ faults = 0)
    /\ Go("work", <<"work", "idle">>)
    /\ Own
    /\ UNCHANGED <<config, irq_val, ext_val, work_canceling, irq_pending,
                   irq_enabled, probe>>

\* the change test on soc and status, then schedule_delayed_work
WorkFinish ==
    /\ At("work", <<"work", "finish">>)
    /\ IF chip.soc # chip.lasttime_soc \/ chip.status # chip.lasttime_status
       THEN /\ chip' = [chip EXCEPT !.lasttime_soc = chip.soc]
            /\ event' = Notify("work")
       ELSE /\ chip' = chip
            /\ event' = NoEvent
    /\ work_pending' = ~work_canceling
    /\ Go("work", <<"work", "idle">>)
    /\ Own
    /\ UNCHANGED <<config, irq_val, ext_val, work_canceling, irq_pending,
                   irq_enabled, probe>>

(***************************************************************************)
(* The chip raises an alert: it sets a STATUS flag and CONFIG.ALRT and     *)
(* pulls the ALRT pin low.  The interrupt is IRQF_TRIGGER_FALLING: only a  *)
(* pin that was high gives an edge.                                        *)
(***************************************************************************)
SetBit(x, m) == x + (1 - Bit(x, m)) * m

ChipAlert ==
    /\ \E flag \in env.flags :
         /\ Bit(regs[MAX17048_STATUS], flag) = 0
         /\ regs' = [regs EXCEPT
                 ![MAX17048_STATUS] = SetBit(@, flag),
                 ![MAX17048_CONFIG] = SetBit(@, MAX17048_CONFIG_ALRT)]
    /\ irq_pending' = IF Bit(regs[MAX17048_CONFIG], MAX17048_CONFIG_ALRT) = 0
                      THEN TRUE ELSE irq_pending
    /\ event' = NoEvent
    /\ ret' = NoRet
    /\ UNCHANGED <<chip, mutex, inBus, faults, buslog, config, pc, phase, req,
                   irq_val, ext_val, work_pending, work_canceling,
                   irq_enabled, probe>>

(***************************************************************************)
(* AlertHandler: max17048_irq.                                             *)
(***************************************************************************)
\* a VL branch that forces soc to 0 and forgets health and level
VoltageLowSocOnly(c) ==
    LET c1 == [c EXCEPT !.soc = 0]
    IN [c1 EXCEPT !.lasttime_soc = c1.soc, !.status = c1.lasttime_status]

\* the VL branch: soc forced to 0 for power off
VoltageLowState(c) ==
    LET c1 == [c EXCEPT !.soc = 0]
    IN [c1 EXCEPT !.lasttime_soc = c1.soc,
                  !.status = c1.lasttime_status,
                  !.health = "Dead",
                  !.capacity_level = "Critical"]

\* a VL branch that keeps the high byte and clears the low byte
MutedValrtHigh(m) == (m.valert \div 256) * 256

\* the VL branch: valrt = mdata->valert & 0x00FF
MutedValrt(m) == m.valert % 256

\* a restore that writes back only the low byte
RestoredValrtLow(m) == m.valert % 256

\* the SC branch: the word written to VALRT when internal_soc >= 1
RestoredValrt(m) == m.valert

\* the rest of the handler after the SC branch: clear STATUS
IrqAfterSC == Call("irq", <<"irq", "clear_status">>, Wr(MAX17048_STATUS, 0))

\* the rest of the handler after the HD branch
IrqAfterHD(val) ==
    IF Bit(val, MAX17048_STATUS_SC) = 1
    THEN Call("irq", <<"sc", "vcell">>, Rd(MAX17048_VCELL))
    ELSE IrqAfterSC

\* a handler that goes from the VL branch past the HD branch
IrqAfterVLSkipHD(val) == IrqAfterHD(val)

\* the rest of the handler after the VL branch
IrqAfterVL(val) ==
    IF Bit(val, MAX17048_STATUS_HD) = 1
    THEN Call("irq", <<"hd", "vcell">>, Rd(MAX17048_VCELL))
    ELSE IrqAfterHD(val)

IrqStart ==
    /\ At("irq", <<"irq", "idle">>)
    /\ irq_pending
    /\ irq_enabled
    /\ irq_pending' = FALSE
    /\ Call("irq", <<"irq", "status">>, Rd(MAX17048_STATUS))
    /\ event' = NoEvent
    /\ Own
    /\ UNCHANGED <<chip, config, irq_val, ext_val, work_pending,
                   work_canceling, irq_enabled, probe>>

\* u16 val = max17048_read_word(STATUS): val < 0 is never true; then the
\* RI, VH flags (logged only) and the VL branch up to its VALRT write
IrqStatusRet ==
    \E o \in Outcomes("irq") :
      /\ Returns("irq", <<"irq", "status">>, o)
      /\ LET val == U16(o.val)
         IN /\ irq_val' = val
            /\ IF val < 0
               THEN /\ Call("irq", <<"irq", "config_read">>,
                            Rd(MAX17048_CONFIG))
                    /\ chip' = chip
                    /\ event' = NoEvent
               ELSE IF Bit(val, MAX17048_STATUS_VL) = 1
               THEN /\ chip' = VoltageLowState(chip)
                    /\ event' = Notify("irq")
                    /\ Call("irq", <<"vl", "valrt">>,
                            Wr(MAX17048_VALRT, MutedValrt(mdata)))
               ELSE /\ chip' = chip
                    /\ event' = NoEvent
                    /\ IrqAfterVL(val)
      /\ UNCHANGED <<config, ext_val, sched, probe>>

IrqVlRet ==
    \E o \in Outcomes("irq") :
      /\ Returns("irq", <<"vl", "valrt">>, o)
      /\ IrqAfterVL(irq_val)
      /\ event' = NoEvent
      /\ UNCHANGED <<chip, config, irq_val, ext_val, sched, probe>>

\* the HD branch after max17048_get_soc
IrqHdAfter ==
    /\ At("irq", <<"hd", "after">>)
    /\ chip' = [chip EXCEPT !.lasttime_soc = chip.soc]
    /\ event' = Notify("irq")
    /\ IrqAfterHD(irq_val)
    /\ Own
    /\ UNCHANGED <<config, irq_val, ext_val, sched, probe>>

\* the SC branch after max17048_get_soc: the policies, the shadow, and the
\* VALRT restore when internal_soc >= 1
IrqScAfter ==
    /\ At("irq", <<"sc", "after">>)
    /\ \E cbok \in BOOLEAN :
         /\ chip' = [ThresholdChip(chip, pdata, cbok) EXCEPT
                        !.lasttime_soc = chip.soc]
         /\ event' = [PolicyCalls(chip, pdata, cbok) EXCEPT
                         !.notify = "irq"]
    /\ IF chip.internal_soc >= 1
       THEN Call("irq", <<"sc", "valrt">>,
                 Wr(MAX17048_VALRT, RestoredValrt(mdata)))
       ELSE IrqAfterSC
    /\ Own
    /\ UNCHANGED <<config, irq_val, ext_val, sched, probe>>

IrqScValrtRet ==
    \E o \in Outcomes("irq") :
      /\ Returns("irq", <<"sc", "valrt">>, o)
      /\ IrqAfterSC
      /\ event' = NoEvent
      /\ UNCHANGED <<chip, config, irq_val, ext_val, sched, probe>>

\* clear_irq: after the STATUS write, whatever it returned
IrqClearStatusRet ==
    \E o \in Outcomes("irq") :
      /\ Returns("irq", <<"irq", "clear_status">>, o)
      /\ Call("irq", <<"irq", "config_read">>, Rd(MAX17048_CONFIG))
      /\ event' = NoEvent
      /\ UNCHANGED <<chip, config, irq_val, ext_val, sched, probe>>

\* val = max17048_read_word(CONFIG) into the u16: val < 0 is never true
IrqConfigRead ==
    \E o \in Outcomes("irq") :
      /\ Returns("irq", <<"irq", "config_read">>, o)
      /\ LET val == U16(o.val)
         IN IF val < 0
               THEN /\ Go("irq", <<"irq", "idle">>)
                    /\ irq_val' = 0
               ELSE /\ Call("irq", <<"irq", "config_write">>,
                            Wr(MAX17048_CONFIG,
                               ClrBit(val, MAX17048_CONFIG_ALRT)))
                    /\ irq_val' = val
      /\ event' = NoEvent
      /\ UNCHANGED <<chip, config, ext_val, sched, probe>>

IrqConfigWrite ==
    \E o \in Outcomes("irq") :
      /\ Returns("irq", <<"irq", "config_write">>, o)
      /\ Go("irq", <<"irq", "idle">>)
      /\ irq_val' = 0
      /\ event' = NoEvent
      /\ UNCHANGED <<chip, config, ext_val, sched, probe>>

(***************************************************************************)
(* External callers: max17048_battery_status, max17048_get_property        *)
(* (VOLTAGE_OCV, through max17048_get_ocv), max17048_check_battery and     *)
(* max17048_shutdown.                                                      *)
(***************************************************************************)
\* status = CHARGING or DISCHARGING; power_supply_changed()
ExtBatteryStatus ==
    /\ At("ext", <<"ext", "idle">>)
    /\ \E s \in {"Charging", "Discharging"} :
         /\ chip' = [chip EXCEPT !.status = s]
         /\ ext_val' = s
    /\ event' = Notify("ext")
    /\ Go("ext", <<"bs", "shadow">>)
    /\ Own
    /\ UNCHANGED <<config, irq_val, sched, probe>>

\* lasttime_status = status: the unsynchronised status is read again, or
\* the compiler reuses the value it has just stored
ExtBatteryStatusShadow ==
    /\ At("ext", <<"bs", "shadow">>)
    /\ \E v \in {chip.status, ext_val} :
         chip' = [chip EXCEPT !.lasttime_status = v]
    /\ ext_val' = ""
    /\ event' = NoEvent
    /\ Go("ext", <<"ext", "idle">>)
    /\ Own
    /\ UNCHANGED <<config, irq_val, sched, probe>>

\* max17048_get_ocv: unlock, read OCV, lock
ExtGetOcv ==
    /\ At("ext", <<"ext", "idle">>)
    /\ Call("ext", <<"ocv", "unlock">>,
            Wr(MAX17048_UNLOCK, MAX17048_UNLOCK_VALUE))
    /\ event' = NoEvent
    /\ Own
    /\ UNCHANGED <<chip, config, irq_val, ext_val, sched, probe>>

ExtOcvUnlockRet ==
    \E o \in Outcomes("ext") :
      /\ Returns("ext", <<"ocv", "unlock">>, o)
      /\ IF o.val # 0
         THEN Go("ext", <<"ext", "idle">>)
         ELSE Call("ext", <<"ocv", "read">>, Rd(MAX17048_OCV))
      /\ event' = NoEvent
      /\ UNCHANGED <<chip, config, irq_val, ext_val, sched, probe>>

ExtOcvReadRet ==
    \E o \in Outcomes("ext") :
      /\ Returns("ext", <<"ocv", "read">>, o)
      /\ Call("ext", <<"ocv", "lock">>, Wr(MAX17048_UNLOCK, 0))
      /\ event' = NoEvent
      /\ UNCHANGED <<chip, config, irq_val, ext_val, sched, probe>>

ExtOcvLockRet ==
    \E o \in Outcomes("ext") :
      /\ Returns("ext", <<"ocv", "lock">>, o)
      /\ Go("ext", <<"ext", "idle">>)
      /\ event' = NoEvent
      /\ UNCHANGED <<chip, config, irq_val, ext_val, sched, probe>>

\* max17048_check_battery: -ENODEV while max17048_data is NULL, that is
\* until max17048_probe has assigned it before its version read; then
\* max17048_get_version
ExtCheckBattery ==
    /\ At("ext", <<"ext", "idle">>)
    /\ pc["probe"] # <<"probe", "start">>
    /\ Call("ext", <<"ver", "read">>, Rd(MAX17048_VER))
    /\ event' = NoEvent
    /\ Own
    /\ UNCHANGED <<chip, config, irq_val, ext_val, sched, probe>>

ExtVerRet ==
    \E o \in Outcomes("ext") :
      /\ Returns("ext", <<"ver", "read">>, o)
      /\ Go("ext", <<"ext", "idle">>)
      /\ event' = NoEvent
      /\ UNCHANGED <<chip, config, irq_val, ext_val, sched, probe>>

\* max17048_shutdown: reset RCOMP to its default
ExtShutdown ==
    /\ At("ext", <<"ext", "idle">>)
    /\ ~chip.shutdown_complete
    /\ Call("ext", <<"sd", "config_read">>, Rd(MAX17048_CONFIG))
    /\ event' = NoEvent
    /\ Own
    /\ UNCHANGED <<chip, config, irq_val, ext_val, sched, probe>>

ExtSdConfigRead ==
    \E o \in Outcomes("ext") :
      /\ Returns("ext", <<"sd", "config_read">>, o)
      /\ IF o.val < 0
         THEN Go("ext", <<"sd", "disable_irq">>)
         ELSE Call("ext", <<"sd", "config_write">>,
                   Wr(MAX17048_CONFIG, RcompConfig(o.val, mdata.rcomp)))
      /\ event' = NoEvent
      /\ UNCHANGED <<chip, config, irq_val, ext_val, sched, probe>>

ExtSdConfigWrite ==
    \E o \in Outcomes("ext") :
      /\ Returns("ext", <<"sd", "config_write">>, o)
      /\ Go("ext", <<"sd", "disable_irq">>)
      /\ event' = NoEvent
      /\ UNCHANGED <<chip, config, irq_val, ext_val, sched, probe>>

\* disable_irq(): no handler starts any more ...
ExtSdDisableIrq ==
    /\ At("ext", <<"sd", "disable_irq">>)
    /\ irq_enabled' = FALSE
    /\ Go("ext", <<"sd", "sync_irq">>)
    /\ event' = NoEvent
    /\ Own
    /\ UNCHANGED <<chip, config, irq_val, ext_val, work_pending,
                   work_canceling, irq_pending, probe>>

\* ... and a running one is awaited; then cancel_delayed_work_sync() takes
\* the work off the queue
ExtSdCancel ==
    /\ At("ext", <<"sd", "sync_irq">>)
    /\ pc["irq"] = <<"irq", "idle">>
    /\ work_pending' = FALSE
    /\ work_canceling' = TRUE
    /\ Go("ext", <<"sd", "cancel">>)
    /\ event' = NoEvent
    /\ Own
    /\ UNCHANGED <<chip, config, irq_val, ext_val, irq_pending, irq_enabled,
                   probe>>

\* a cancellation that does not wait for a running sampler pass
ExtSdCancelledNoWait ==
    /\ At("ext", <<"sd", "cancel">>)
    /\ work_canceling' = FALSE
    /\ Go("ext", <<"sd", "flag">>)
    /\ event' = NoEvent
    /\ Own
    /\ UNCHANGED <<chip, config, irq_val, ext_val, work_pending,
                   irq_pending, irq_enabled, probe>>

\* cancel_delayed_work_sync() returns when no sampler pass is running
ExtSdCancelled ==
    /\ At("ext", <<"sd", "cancel">>)
    /\ pc["work"] = <<"work", "idle">>
    /\ work_canceling' = FALSE
    /\ Go("ext", <<"sd", "flag">>)
    /\ event' = NoEvent
    /\ Own
    /\ UNCHANGED <<chip, config, irq_val, ext_val, work_pending,
                   irq_pending, irq_enabled, probe>>

\* mutex_lock(); shutdown_complete = 1; mutex_unlock()
ExtSdFlag ==
    /\ At("ext", <<"sd", "flag">>)
    /\ MutexFree
    /\ chip' = [chip EXCEPT !.shutdown_complete = TRUE]
    /\ Go("ext", <<"ext", "idle">>)
    /\ event' = NoEvent
    /\ Own
    /\ UNCHANGED <<config, irq_val, ext_val, sched, probe>>

(***************************************************************************)
(* max17048_suspend and max17048_resume, called by the power management    *)
(* core.  Between a suspend that returned 0 and its resume the caller is   *)
(* at <<"su", "suspended">>; a suspend that returned an error aborts the   *)
(* transition and the core does not call resume for the device.            *)
(***************************************************************************)
\* clear CONFIG.ALSC when one_percent_alerts is set, else straight to
\* cancel_delayed_work_sync()
ExtSuspend ==
    /\ At("ext", <<"ext", "idle">>)
    /\ IF mdata.one_percent_alerts # 0
       THEN /\ Call("ext", <<"su", "config_read">>, Rd(MAX17048_CONFIG))
            /\ UNCHANGED <<work_pending, work_canceling>>
       ELSE /\ Go("ext", <<"su", "cancel">>)
            /\ work_pending' = FALSE
            /\ work_canceling' = TRUE
    /\ event' = NoEvent
    /\ Own
    /\ UNCHANGED <<chip, config, irq_val, ext_val, irq_pending, irq_enabled,
                   probe>>

\* u16 val = max17048_read_word(CONFIG): val < 0 is never true;
\* val &= ~one_percent_alerts
ExtSuConfigRead ==
    \E o \in Outcomes("ext") :
      /\ Returns("ext", <<"su", "config_read">>, o)
      /\ LET val == U16(o.val)
         IN IF val < 0
            THEN /\ Go("ext", <<"su", "cancel">>)
                 /\ work_pending' = FALSE
                 /\ work_canceling' = TRUE
            ELSE /\ Call("ext", <<"su", "config_write">>,
                         Wr(MAX17048_CONFIG,
                            ClrBit(val, mdata.one_percent_alerts)))
                 /\ UNCHANGED <<work_pending, work_canceling>>
      /\ event' = NoEvent
      /\ UNCHANGED <<chip, config, irq_val, ext_val, irq_pending,
                     irq_enabled, probe>>

\* after the CONFIG write, whatever it returned:
\* cancel_delayed_work_sync() takes the work off the queue
ExtSuConfigWrite ==
    \E o \in Outcomes("ext") :
      /\ Returns("ext", <<"su", "config_write">>, o)
      /\ Go("ext", <<"su", "cancel">>)
      /\ work_pending' = FALSE
      /\ work_canceling' = TRUE
      /\ event' = NoEvent
      /\ UNCHANGED <<chip, config, irq_val, ext_val, irq_pending,
                     irq_enabled, probe>>

\* cancel_delayed_work_sync() returns when no sampler pass is running;
\* enter hibernate mode
ExtSuCancelled ==
    /\ At("ext", <<"su", "cancel">>)
    /\ pc["work"] = <<"work", "idle">>
    /\ work_canceling' = FALSE
    /\ Call("ext", <<"su", "hibrt">>, Wr(MAX17048_HIBRT, 65535))
    /\ event' = NoEvent
    /\ Own
    /\ UNCHANGED <<chip, config, irq_val, ext_val, work_pending,
                   irq_pending, irq_enabled, probe>>

\* if (ret < 0) return ret; return 0
ExtSuHibrtRet ==
    \E o \in Outcomes("ext") :
      /\ Returns("ext", <<"su", "hibrt">>, o)
      /\ IF o.val < 0 THEN Go("ext", <<"ext", "idle">>)
         ELSE Go("ext", <<"su", "suspended">>)
      /\ event' = NoEvent
      /\ UNCHANGED <<chip, config, irq_val, ext_val, sched, probe>>

\* max17048_resume: exit hibernate mode
ExtResume ==
    /\ At("ext", <<"su", "suspended">>)
    /\ Call("ext", <<"re", "hibrt">>, Wr(MAX17048_HIBRT, mdata.hibernate))
    /\ event' = NoEvent
    /\ Own
    /\ UNCHANGED <<chip, config, irq_val, ext_val, sched, probe>>

\* if (ret < 0) return ret; schedule_delayed_work(); set CONFIG.ALSC
ExtReHibrtRet ==
    \E o \in Outcomes("ext") :
      /\ Returns("ext", <<"re", "hibrt">>, o)
      /\ IF o.val < 0
         THEN /\ Go("ext", <<"ext", "idle">>)
              /\ work_pending' = work_pending
         ELSE /\ work_pending' = TRUE
              /\ IF mdata.one_percent_alerts # 0
                 THEN Call("ext", <<"re", "config_read">>,
                           Rd(MAX17048_CONFIG))
                 ELSE Go("ext", <<"ext", "idle">>)
      /\ event' = NoEvent
      /\ UNCHANGED <<chip, config, irq_val, ext_val, work_canceling,
                     irq_pending, irq_enabled, probe>>

\* u16 val = max17048_read_word(CONFIG): val < 0 is never true;
\* val |= one_percent_alerts
ExtReConfigRead ==
    \E o \in Outcomes("ext") :
      /\ Returns("ext", <<"re", "config_read">>, o)
      /\ LET val == U16(o.val)
         IN IF val < 0 THEN Go("ext", <<"ext", "idle">>)
            ELSE Call("ext", <<"re", "config_write">>,
                      Wr(MAX17048_CONFIG,
                         BitOr(val, mdata.one_percent_alerts)))
      /\ event' = NoEvent
      /\ UNCHANGED <<chip, config, irq_val, ext_val, sched, probe>>

ExtReConfigWrite ==
    \E o \in Outcomes("ext") :
      /\ Returns("ext", <<"re", "config_write">>, o)
      /\ Go("ext", <<"ext", "idle">>)
      /\ event' = NoEvent
      /\ UNCHANGED <<chip, config, irq_val, ext_val, sched, probe>>

(***************************************************************************)
(* The running driver: the state max17048_probe leaves behind when it      *)
(* returns 0, and the flows that run from then on.                         *)
(***************************************************************************)
\* max17048_initialize: the alert-configuration byte
ConfigByte(m) ==
    U8(BitOr(m.one_percent_alerts,
             U8(IF m.bits = 19 THEN 32 - m.alert_threshold * 2
                ELSE IF m.bits = 18 THEN 32 - m.alert_threshold
                ELSE 0)))

\* max17048_initialize: (mdata->rcomp << 8) | config
InitConfigWord(m) == BitOr(m.rcomp * 256, ConfigByte(m))

\* devm_kzalloc(): every field zero (status, health and level UNKNOWN)
ChipAlloc ==
    [vcell |-> 0, soc |-> 0, status |-> "Unknown", health |-> "Unknown",
     capacity_level |-> "Unknown", temperature |-> 0,
     current_threshold |-> 0, internal_soc |-> 0,
     lasttime_soc |-> 0, lasttime_status |-> "Unknown",
     lasttime_temperature |-> 0, lasttime_current_threshold |-> 0,
     shutdown_complete |-> FALSE]

\* the assignments of max17048_probe after max17048_initialize
ProbeAssign(c, pd) ==
    LET c1 == [c EXCEPT !.status = "Discharging",
                        !.lasttime_status = "Discharging"]
    IN IF pd.current_normal # 0
       THEN [c1 EXCEPT !.current_threshold = pd.current_normal,
                       !.lasttime_current_threshold = pd.current_normal]
       ELSE c1

\* struct max17048_chip when max17048_probe has returned 0
ChipInit(pd) == ProbeAssign(ChipAlloc, pd)

\* rcomp_seg_table of max17048_write_rcomp_seg
RcompSegTable(rcomp_seg) ==
    [i \in 1..16 |-> IF i % 2 = 1 THEN (rcomp_seg \div 256) % 256
                     ELSE rcomp_seg % 256]

\* &mdata->data_tbl[i*0x10], 16 bytes
TableBlock(m, i) == [k \in 1..16 |-> m.data_tbl[i * 16 + k]]

\* the registers of a chip whose model has been loaded and configured
RegsLoaded(m) ==
    [r \in WordRegs \cup BlockRegs |->
        IF r = MAX17048_VER THEN MAX17048_VERSION_NO_12
        ELSE IF r = MAX17048_CONFIG THEN InitConfigWord(m)
        ELSE IF r = MAX17048_VALRT THEN m.valert
        ELSE IF r = MAX17048_VRESET THEN m.vreset
        ELSE IF r = MAX17048_OCV THEN 55856
        ELSE IF r = MAX17048_RCOMPSEG1 \/ r = MAX17048_RCOMPSEG2
             THEN RcompSegTable(m.rcomp_seg)
        ELSE IF r \in BlockRegs
             THEN TableBlock(m, (r - MAX17048_TABLE) \div 16)
        ELSE 0]

\* the registers of a chip that has not been configured
RegsReset ==
    [r \in WordRegs \cup BlockRegs |->
        IF r = MAX17048_VER THEN MAX17048_VERSION_NO_12
        ELSE IF r = MAX17048_OCV THEN 55856
        ELSE IF r \in BlockRegs THEN [k \in 1..16 |-> 0]
        ELSE 0]

(***************************************************************************)
(* DeviceInitializer: max17048_probe with max17048_initialize,             *)
(* max17048_load_model_data and max17048_write_rcomp_seg.  probe records   *)
(* the locals of the three functions and the return statement by which    *)
(* each one left.                                                          *)
(***************************************************************************)
ProbeRunning ==
    [registered |-> FALSE, ocv |-> 0, load_exit |-> "", load_ret |-> 0,
     init_fault |-> "", init_exit |-> "", init_ret |-> 0, result |-> 0]

ProbeFrame ==
    /\ event' = NoEvent
    /\ UNCHANGED <<chip, config, irq_val, ext_val, sched>>

TableLabel(i) == <<"load", <<"table0", "table1", "table2", "table3">>[i + 1]>>

\* max17048_probe after max17048_initialize returned v by the return
\* statement exit: if (ret < 0) goto error2
InitReturn(v, exit, p) ==
    IF v < 0
    THEN /\ Go("probe", <<"probe", "done">>)
         /\ probe' = [p EXCEPT !.init_exit = exit, !.init_ret = v,
                               !.result = v]
    ELSE /\ Go("probe", <<"probe", "register">>)
         /\ probe' = [p EXCEPT !.init_exit = exit, !.init_ret = v]

\* max17048_initialize after a direct write returned v into uint8_t ret (ret8):
\* if (ret < 0) return ret; else the next call
InitAfterWrite(v, site, next) ==
    LET ret8 == U8(v)
        p == IF v < 0 /\ probe.init_fault = ""
             THEN [probe EXCEPT !.init_fault = site] ELSE probe
    IN IF ret8 < 0 THEN InitReturn(ret8, site, p)
       ELSE /\ Call("probe", next.label, next.req)
            /\ probe' = p

\* max17048_initialize after max17048_load_model_data returned v by the
\* return statement exit: ret = v into the uint8_t, if (ret < 0) return ret
LoadReturn(v, exit, p) ==
    LET ret8 == U8(v)
        p1 == [p EXCEPT !.load_exit = exit, !.load_ret = v]
    IN IF ret8 < 0 THEN InitReturn(ret8, "load", p1)
       ELSE /\ Call("probe", <<"init", "config">>,
                    Wr(MAX17048_CONFIG, InitConfigWord(mdata)))
            /\ probe' = p1

\* max17048_load_model_data after a call returned v: if (ret < 0) return ret
LoadAfter(v, exit, next) ==
    IF v < 0 THEN LoadReturn(v, exit, probe)
    ELSE /\ Call("probe", next.label, next.req)
         /\ probe' = probe

Site(label, r) == [label |-> label, req |-> r]

\* max17048_probe up to max17048_get_version
ProbeStart ==
    /\ At("probe", <<"probe", "start">>)
    /\ Call("probe", <<"probe", "version">>, Rd(MAX17048_VER))
    /\ probe' = probe
    /\ Own
    /\ ProbeFrame

\* the version is logged; max17048_initialize: unlock model access
ProbeVersionRet ==
    \E o \in Outcomes("probe") :
      /\ Returns("probe", <<"probe", "version">>, o)
      /\ Call("probe", <<"init", "unlock">>,
              Wr(MAX17048_UNLOCK, MAX17048_UNLOCK_VALUE))
      /\ probe' = probe
      /\ ProbeFrame

InitUnlockRet ==
    \E o \in Outcomes("probe") :
      /\ Returns("probe", <<"init", "unlock">>, o)
      /\ InitAfterWrite(o.val, "unlock",
                        Site(<<"load", "ocv">>, Rd(MAX17048_OCV)))
      /\ ProbeFrame

\* read OCV: a failed read, 0xffff (model access locked), or the value
LoadOcvRet ==
    \E o \in Outcomes("probe") :
      /\ Returns("probe", <<"load", "ocv">>, o)
      /\ IF o.val < 0 THEN LoadReturn(o.val, "ocv", probe)
         ELSE IF U16(o.val) = 65535 THEN LoadReturn(-1, "locked", probe)
         ELSE /\ Call("probe", TableLabel(0),
                      Blk(MAX17048_TABLE, TableBlock(mdata, 0)))
              /\ probe' = [probe EXCEPT !.ocv = U16(o.val)]
      /\ ProbeFrame

\* write custom model data: four blocks of 16 bytes
LoadTableRet ==
    \E i \in 0..3 : \E o \in Outcomes("probe") :
      /\ Returns("probe", TableLabel(i), o)
      /\ IF o.val < 0 THEN LoadReturn(-1, "table", probe)
         ELSE IF i < 3
         THEN /\ Call("probe", TableLabel(i + 1),
                      Blk(MAX17048_TABLE + (i + 1) * 16,
                          TableBlock(mdata, i + 1)))
              /\ probe' = probe
         ELSE /\ Call("probe", <<"load", "ocvtest">>,
                      Wr(MAX17048_OCV, mdata.ocvtest))
              /\ probe' = probe
      /\ ProbeFrame

LoadOcvTestRet ==
    \E o \in Outcomes("probe") :
      /\ Returns("probe", <<"load", "ocvtest">>, o)
      /\ LoadAfter(o.val, "ocvtest",
                   Site(<<"load", "seg1">>,
                        Blk(MAX17048_RCOMPSEG1,
                            RcompSegTable(mdata.rcomp_seg))))
      /\ ProbeFrame

LoadSeg1Ret ==
    \E o \in Outcomes("probe") :
      /\ Returns("probe", <<"load", "seg1">>, o)
      /\ LoadAfter(o.val, "seg1",
                   Site(<<"load", "seg2">>,
                        Blk(MAX17048_RCOMPSEG2,
                            RcompSegTable(mdata.rcomp_seg))))
      /\ ProbeFrame

LoadSeg2Ret ==
    \E o \in Outcomes("probe") :
      /\ Returns("probe", <<"load", "seg2">>, o)
      /\ LoadAfter(o.val, "seg2",
                   Site(<<"load", "hibrt">>, Wr(MAX17048_HIBRT, 0)))
      /\ ProbeFrame

LoadHibrtRet ==
    \E o \in Outcomes("probe") :
      /\ Returns("probe", <<"load", "hibrt">>, o)
      /\ LoadAfter(o.val, "hibrt",
                   Site(<<"load", "lock">>, Wr(MAX17048_UNLOCK, 0)))
      /\ ProbeFrame

LoadLockRet ==
    \E o \in Outcomes("probe") :
      /\ Returns("probe", <<"load", "lock">>, o)
      /\ LoadAfter(o.val, "lock",
                   Site(<<"load", "soc">>, Rd(MAX17048_SOC)))
      /\ ProbeFrame

\* the high byte of the SOC word lies in [soccheck_A, soccheck_B]
SocCheck(m, soc_tst) ==
    /\ soc_tst \div 256 >= m.soccheck_A
    /\ soc_tst \div 256 <= m.soccheck_B

\* read SOC and compare to the expected result; a failed comparison
\* returns ret, the word that was read
LoadSocRet ==
    \E o \in Outcomes("probe") :
      /\ Returns("probe", <<"load", "soc">>, o)
      /\ IF o.val < 0 THEN LoadReturn(o.val, "soc", probe)
         ELSE IF ~SocCheck(mdata, U16(o.val))
         THEN LoadReturn(o.val, "soc_check", probe)
         ELSE /\ Call("probe", <<"load", "unlock">>,
                      Wr(MAX17048_UNLOCK, MAX17048_UNLOCK_VALUE))
              /\ probe' = probe
      /\ ProbeFrame

LoadUnlockRet ==
    \E o \in Outcomes("probe") :
      /\ Returns("probe", <<"load", "unlock">>, o)
      /\ LoadAfter(o.val, "unlock",
                   Site(<<"load", "restore">>,
                        Wr(MAX17048_OCV, probe.ocv)))
      /\ ProbeFrame

\* restore OCV; return ret
LoadRestoreRet ==
    \E o \in Outcomes("probe") :
      /\ Returns("probe", <<"load", "restore">>, o)
      /\ LoadReturn(o.val, IF o.val < 0 THEN "restore" ELSE "ok", probe)
      /\ ProbeFrame

InitConfigRet ==
    \E o \in Outcomes("probe") :
      /\ Returns("probe", <<"init", "config">>, o)
      /\ InitAfterWrite(o.val, "config",
                        Site(<<"init", "valrt">>,
                             Wr(MAX17048_VALRT, mdata.valert)))
      /\ ProbeFrame

InitValrtRet ==
    \E o \in Outcomes("probe") :
      /\ Returns("probe", <<"init", "valrt">>, o)
      /\ InitAfterWrite(o.val, "valrt",
                        Site(<<"init", "vreset">>,
                             Wr(MAX17048_VRESET, mdata.vreset)))
      /\ ProbeFrame

InitVresetRet ==
    \E o \in Outcomes("probe") :
      /\ Returns("probe", <<"init", "vreset">>, o)
      /\ InitAfterWrite(o.val, "vreset",
                        Site(<<"init", "lock">>, Wr(MAX17048_UNLOCK, 0)))
      /\ ProbeFrame

\* lock model access; if (ret < 0) return ret; mdelay(200); return 0
InitLockRet ==
    \E o \in Outcomes("probe") :
      /\ Returns("probe", <<"init", "lock">>, o)
      /\ LET ret8 == U8(o.val)
             p == IF o.val < 0 /\ probe.init_fault = ""
                  THEN [probe EXCEPT !.init_fault = "lock"] ELSE probe
         IN IF ret8 < 0 THEN InitReturn(ret8, "lock", p)
            ELSE InitReturn(0, "ok", p)
      /\ ProbeFrame

\* irq_clear_error: free_irq, cancel_delayed_work_sync,
\* power_supply_unregister, and the error is returned
IrqClearError(v) ==
    /\ Go("probe", <<"probe", "done">>)
    /\ probe' = [probe EXCEPT !.registered = FALSE, !.result = v]
    /\ irq_enabled' = FALSE
    /\ irq_pending' = FALSE
    /\ work_pending' = FALSE
    /\ UNCHANGED work_canceling

\* the assignments after max17048_initialize, power_supply_register and
\* schedule_delayed_work(&chip->work, 0)
ProbeRegister ==
    /\ At("probe", <<"probe", "register">>)
    /\ chip' = ProbeAssign(chip, pdata)
    /\ \E registered \in BOOLEAN :
         IF registered
         THEN /\ probe' = [probe EXCEPT !.registered = TRUE]
              /\ work_pending' = TRUE
              /\ Go("probe", <<"probe", "request_irq">>)
         ELSE /\ probe' = [probe EXCEPT !.result = EIO]
              /\ work_pending' = work_pending
              /\ Go("probe", <<"probe", "done">>)
    /\ event' = NoEvent
    /\ Own
    /\ UNCHANGED <<config, irq_val, ext_val, work_canceling, irq_pending,
                   irq_enabled>>

\* request_threaded_irq; on failure irq_reg_error: the work is cancelled
\* and the power supply unregistered
ProbeRequestIrq ==
    /\ At("probe", <<"probe", "request_irq">>)
    /\ \E requested \in BOOLEAN :
         IF requested
         THEN /\ irq_enabled' = TRUE
              /\ Call("probe", <<"probe", "status">>,
                      Wr(MAX17048_STATUS, 0))
              /\ UNCHANGED <<probe, work_pending>>
         ELSE /\ pc["work"] = <<"work", "idle">>
              /\ irq_enabled' = irq_enabled
              /\ work_pending' = FALSE
              /\ probe' = [probe EXCEPT !.registered = FALSE,
                                        !.result = EIO]
              /\ Go("probe", <<"probe", "done">>)
    /\ event' = NoEvent
    /\ Own
    /\ UNCHANGED <<chip, config, irq_val, ext_val, work_canceling,
                   irq_pending>>

ProbeStatusRet ==
    \E o \in Outcomes("probe") :
      /\ Returns("probe", <<"probe", "status">>, o)
      /\ IF o.val < 0 THEN IrqClearError(o.val)
         ELSE /\ Call("probe", <<"probe", "config_read">>,
                      Rd(MAX17048_CONFIG))
              /\ UNCHANGED <<probe, sched>>
      /\ event' = NoEvent
      /\ UNCHANGED <<chip, config, irq_val, ext_val>>

\* val = max17048_read_word(CONFIG) into the u16: val < 0 is never true
ProbeConfigRead ==
    \E o \in Outcomes("probe") :
      /\ Returns("probe", <<"probe", "config_read">>, o)
      /\ LET val == U16(o.val)
         IN IF val < 0 THEN IrqClearError(val)
            ELSE /\ Call("probe", <<"probe", "config_write">>,
                         Wr(MAX17048_CONFIG,
                            ClrBit(val, MAX17048_CONFIG_ALRT)))
                 /\ UNCHANGED <<probe, sched>>
      /\ event' = NoEvent
      /\ UNCHANGED <<chip, config, irq_val, ext_val>>

\* the last write; device_set_wakeup_capable; return 0
ProbeConfigWrite ==
    \E o \in Outcomes("probe") :
      /\ Returns("probe", <<"probe", "config_write">>, o)
      /\ IF o.val < 0 THEN IrqClearError(o.val)
         ELSE /\ Go("probe", <<"probe", "done">>)
              /\ probe' = [probe EXCEPT !.result = 0]
              /\ UNCHANGED sched
      /\ event' = NoEvent
      /\ UNCHANGED <<chip, config, irq_val, ext_val>>

(***************************************************************************)
(* Initial states.                                                         *)
(***************************************************************************)
Env(socs, temps, flags, n) ==
    [socs |-> socs, temps |-> temps, flags |-> flags, faults |-> n]

\* the state in which max17048_probe is entered
InitProbing(m, pd, e) ==
    /\ mdata = m
    /\ pdata = pd
    /\ env = e
    /\ chip = ChipAlloc
    /\ mutex = NoFlow
    /\ regs = RegsReset
    /\ pc = [f \in Flows |-> IF f = "probe" THEN <<"probe", "start">>
                             ELSE <<f, "idle">>]
    /\ phase = [f \in Flows |-> "run"]
    /\ req = [f \in Flows |-> NoReq]
    /\ ret = NoRet
    /\ inBus = {}
    /\ irq_val = 0
    /\ ext_val = ""
    /\ event = NoEvent
    /\ work_pending = FALSE
    /\ work_canceling = FALSE
    /\ irq_pending = FALSE
    /\ irq_enabled = FALSE
    /\ faults = 0
    /\ buslog = <<>>
    /\ probe = ProbeRunning

\* the state max17048_probe leaves behind when it returns 0
InitRunning(m, pd, e) ==
    /\ mdata = m
    /\ pdata = pd
    /\ env = e
    /\ chip = ChipInit(pd)
    /\ mutex = NoFlow
    /\ regs = RegsLoaded(m)
    /\ pc = [f \in Flows |-> IF f = "probe" THEN <<"probe", "done">>
                             ELSE <<f, "idle">>]
    /\ phase = [f \in Flows |-> "run"]
    /\ req = [f \in Flows |-> NoReq]
    /\ ret = NoRet
    /\ inBus = {}
    /\ irq_val = 0
    /\ ext_val = ""
    /\ event = NoEvent
    /\ work_pending = TRUE
    /\ work_canceling = FALSE
    /\ irq_pending = FALSE
    /\ irq_enabled = TRUE
    /\ faults = 0
    /\ buslog = <<>>
    /\ probe = [ProbeRunning EXCEPT !.registered = TRUE, !.ocv = 55856,
                                    !.load_exit = "ok", !.init_exit = "ok"]

(***************************************************************************)
(* The flows.                                                              *)
(***************************************************************************)
Locks == \E f \in Flows : Lock(f)

Sampler ==
    \/ WorkStart
    \/ WorkRcompRead
    \/ WorkRcompWrite
    \/ GetVcellRet("work", "work")
    \/ GetSocRet("work", "work")
    \/ GetSocDerive("work", "work")
    \/ WorkPolicy
    \/ WorkHealth
    \/ WorkFinish

Alert ==
    \/ IrqStart
    \/ IrqStatusRet
    \/ IrqVlRet
    \/ \E blk \in {"hd", "sc"} : GetVcellRet("irq", blk)
    \/ \E blk \in {"hd", "sc"} : GetSocRet("irq", blk)
    \/ \E blk \in {"hd", "sc"} : GetSocDerive("irq", blk)
    \/ IrqHdAfter
    \/ IrqScAfter
    \/ IrqScValrtRet
    \/ IrqClearStatusRet
    \/ IrqConfigRead
    \/ IrqConfigWrite

StatusReport ==
    \/ ExtBatteryStatus
    \/ ExtBatteryStatusShadow

OcvQuery ==
    \/ ExtGetOcv
    \/ ExtOcvUnlockRet
    \/ ExtOcvReadRet
    \/ ExtOcvLockRet

VersionQuery ==
    \/ ExtCheckBattery
    \/ ExtVerRet

PowerManagement ==
    \/ ExtSuspend
    \/ ExtSuConfigRead
    \/ ExtSuConfigWrite
    \/ ExtSuCancelled
    \/ ExtSuHibrtRet
    \/ ExtResume
    \/ ExtReHibrtRet
    \/ ExtReConfigRead
    \/ ExtReConfigWrite

Teardown ==
    \/ ExtShutdown
    \/ ExtSdConfigRead
    \/ ExtSdConfigWrite
    \/ ExtSdDisableIrq
    \/ ExtSdCancel
    \/ ExtSdCancelled
    \/ ExtSdFlag

Probe ==
    \/ ProbeStart
    \/ ProbeVersionRet
    \/ InitUnlockRet
    \/ LoadOcvRet
    \/ LoadTableRet
    \/ LoadOcvTestRet
    \/ LoadSeg1Ret
    \/ LoadSeg2Ret
    \/ LoadHibrtRet
    \/ LoadLockRet
    \/ LoadSocRet
    \/ LoadUnlockRet
    \/ LoadRestoreRet
    \/ InitConfigRet
    \/ InitValrtRet
    \/ InitVresetRet
    \/ InitLockRet
    \/ ProbeRegister
    \/ ProbeRequestIrq
    \/ ProbeStatusRet
    \/ ProbeConfigRead
    \/ ProbeConfigWrite

(***************************************************************************)
(* Spec: the running driver with the sampler, the alert handler, OCV       *)
(* queries and shutdown, on a bus that fails at most MaxFaults times.      *)
(***************************************************************************)
MaxFaults == 1

Init == InitRunning(ModelData(18), PlatformData(FALSE),
                    Env({2560, 51200}, {20000}, {MAX17048_STATUS_VL},
                        MaxFaults))

Next == Sampler \/ Alert \/ OcvQuery \/ Teardown \/ Locks \/ ChipAlert

Spec == Init /\ [][Next]_vars

(***************************************************************************)
(* SpecInit: max17048_probe on an unconfigured chip.                       *)
(***************************************************************************)
InitInit == InitProbing(ModelData(18), PlatformData(FALSE),
                        Env({2560, 12800}, {20000}, {}, MaxFaults))

NextInit == Probe \/ Locks

SpecInit == InitInit /\ [][NextInit]_vars

(***************************************************************************)
(* SpecAlert: the alert handler alone, with every alert flag.              *)
(***************************************************************************)
InitAlert == InitRunning(ModelData(18), PlatformData(TRUE),
                         Env({0, 2560, 51200}, {20000}, AlertFlags,
                             MaxFaults))

NextAlert == Alert \/ Locks \/ ChipAlert

SpecAlert == InitAlert /\ [][NextAlert]_vars

(***************************************************************************)
(* SpecStatus: the sampler and max17048_battery_status.                    *)
(***************************************************************************)
InitStatus == InitRunning(ModelData(18), PlatformData(TRUE),
                          Env(SocRaws, Temps, {}, MaxFaults))

NextStatus == Sampler \/ StatusReport \/ Locks

SpecStatus == InitStatus /\ [][NextStatus]_vars

(***************************************************************************)
(* SpecRcomp: the sampler alone, for every configured rcomp base and       *)
(* coefficient pair and every temperature of a bounded range.              *)
(***************************************************************************)
TempSteps == 9
WideTemps == {20000} \cup {14003 * k - 40000 : k \in 0..TempSteps}
RcompBases == {0, 100, 255}
HotCoefs == {-1225, 3100}
ColdCoefs == {-5400, 2200}

InitRcomp ==
    \E rc \in RcompBases, hot \in HotCoefs, cold \in ColdCoefs :
      InitRunning([ModelData(18) EXCEPT !.rcomp = rc, !.t_co_hot = hot,
                                        !.t_co_cold = cold],
                  PlatformData(FALSE),
                  Env({12800}, WideTemps, {}, MaxFaults))

NextRcomp == Sampler \/ Locks

SpecRcomp == InitRcomp /\ [][NextRcomp]_vars

(***************************************************************************)
(* Properties.                                                             *)
(***************************************************************************)

\* C1: once chip->shutdown_complete is set, every transport call that
\* returns, returns -ENODEV, and no flow enters an i2c transaction.
C1_FencedCallsReturnNotReady ==
    [][chip.shutdown_complete =>
          /\ (ret'.flow # NoFlow => ret'.val = ENODEV)
          /\ inBus' = {}
          /\ \A f \in Flows : phase'[f] # "bus"]_vars

\* C1: a property query after shutdown has got -ENODEV
C1_Witness ==
    /\ chip.shutdown_complete
    /\ ret = [flow |-> "ext", val |-> ENODEV]
    /\ inBus = {}

\* C2: at most one flow is inside an i2c transaction, the mutex is held by
\* exactly the flow that is inside one, and when a transport call has
\* returned (with success, a transport failure or -ENODEV) the mutex is free.
C2_OneTransactionMutexReleased ==
    /\ Cardinality(inBus) <= 1
    /\ \A f \in Flows : (f \in inBus) <=> (mutex = f)
    /\ \A f \in Flows : (f \in inBus) <=> (phase[f] = "bus")
    /\ ret.flow # NoFlow => mutex = NoFlow

\* C2: one flow is inside a transaction while another waits in mutex_lock
C2_Witness ==
    \E f, g \in Flows :
      /\ f # g
      /\ phase[f] = "bus"
      /\ mutex = f
      /\ phase[g] = "call"

\* C3: in every reachable state the soc field is within [0,100].
C3_SocInRange == chip.soc \in 0..100

\* C4: status is never Full while lasttime_status is Discharging.
C4_FullOnlyAfterCharging ==
    chip.status = "Full" => chip.lasttime_status # "Discharging"

\* max17048_load_model_data has left by a failing return statement
LoadFailed == probe.load_exit \notin {"", "ok"}

\* C5: when a step of the model load has failed, max17048_initialize
\* issues none of its later writes and returns a failure.
C5_LoadFailureAborts ==
    LoadFailed =>
      /\ pc["probe"][1] # "init"
      /\ (probe.init_exit # "" => probe.init_ret < 0)

\* C6: when the SOC check has failed, max17048_initialize returns a
\* failure and the chip's registers are as before the attempt.
C6_SocCheckFailureLeavesChip ==
    (probe.load_exit = "soc_check" /\ probe.init_exit # "") =>
      /\ probe.init_ret < 0
      /\ regs = RegsReset

\* C7: when a write issued directly by max17048_initialize has failed,
\* initialization has stopped at that write with a failure, and the power
\* supply is not registered, the sampler not armed, the interrupt not
\* requested.
C7_InitWriteFailureStopsProbe ==
    probe.init_fault # "" =>
      /\ probe.init_exit = probe.init_fault
      /\ probe.init_ret < 0
      /\ ~probe.registered
      /\ ~work_pending
      /\ ~irq_enabled

\* the quotient of a by 1000000 rounded toward zero, as the integer q with
\* |q| * 1000000 <= |a| < (|q| + 1) * 1000000 and the sign of a
QuotientMillion(a) ==
    CHOOSE q \in -500..500 :
      /\ Abs(q) * 1000000 <= Abs(a)
      /\ Abs(a) < (Abs(q) + 1) * 1000000
      /\ (a >= 0 => q >= 0)
      /\ (a <= 0 => q <= 0)

\* clamp(rcomp + (temp - 20000) * coef / 1000000, 0, 255)
RcompExpected(m, temp) ==
    LET coef == IF temp > 20000 THEN m.t_co_hot
                ELSE IF temp < 20000 THEN m.t_co_cold
                ELSE 0
        x == m.rcomp + QuotientMillion((temp - 20000) * coef)
    IN IF x < 0 THEN 0 ELSE IF x > 255 THEN 255 ELSE x

\* C8: the upper byte of the word max17048_update_rcomp writes to CONFIG
\* is within [0,255] and equals clamp(rcomp + (temp-20000)*coef/1000000,
\* 0, 255), the division rounding toward zero, with coef the hot
\* coefficient above 20000, the cold one below, and no change at 20000;
\* the low byte is the one read from CONFIG.
C8_RcompByteClamped ==
    pc["work"] = <<"work", "rcomp_write">> =>
      /\ req["work"].kind = "write"
      /\ req["work"].reg = MAX17048_CONFIG
      /\ req["work"].val \div 256 \in 0..255
      /\ req["work"].val \div 256 = RcompExpected(mdata, chip.temperature)

\* C8: a CONFIG write whose RCOMP byte has been clamped to 255
C8_Witness ==
    /\ pc["work"] = <<"work", "rcomp_write">>
    /\ req["work"].val \div 256 = 255
    /\ mdata.rcomp = 100
    /\ chip.temperature < 20000

\* C9 (as stated): the word the VL branch writes to VALRT has the high
\* byte of the configured valert.
C9_ValrtHighBytePreserved ==
    pc["irq"] = <<"vl", "valrt">> =>
      req["irq"].val \div 256 = mdata.valert \div 256

\* C9 (amended): the word the VL branch writes to VALRT has the low byte
\* of the configured valert (valert-max) and a zero high byte (valert-min).
C9_ValrtLowBytePreserved ==
    pc["irq"] = <<"vl", "valrt">> =>
      /\ req["irq"].kind = "write"
      /\ req["irq"].reg = MAX17048_VALRT
      /\ req["irq"].val % 256 = mdata.valert % 256
      /\ req["irq"].val \div 256 = 0

\* C9: the VL branch's VALRT write has reached the chip
C9_Witness ==
    /\ ret.flow = "irq"
    /\ ret.val = 0
    /\ pc["irq"] # <<"vl", "valrt">>
    /\ regs[MAX17048_VALRT] = mdata.valert % 256
    /\ mdata.valert \div 256 # 0

\* C10: the step that processes the VL bit leaves soc = 0, lasttime_soc =
\* 0, status = lasttime_status, health = Dead, capacity_level = Critical
\* and calls power_supply_changed(), whatever soc, health and
\* capacity_level were.
C10_VoltageLowForcesEmpty ==
    [][(pc["irq"] = <<"irq", "status">> /\ pc'["irq"] = <<"vl", "valrt">>) =>
          /\ chip'.soc = 0
          /\ chip'.lasttime_soc = 0
          /\ chip'.status = chip.lasttime_status
          /\ chip'.status = chip'.lasttime_status
          /\ chip'.health = "Dead"
          /\ chip'.capacity_level = "Critical"
          /\ event'.notify = "irq"]_vars

\* C10: the VL bit has just been processed on a battery that was reported
\* full and in good health
C10_Witness ==
    /\ pc["irq"] = <<"vl", "valrt">>
    /\ event.notify = "irq"
    /\ chip.soc = 0
    /\ chip.health = "Dead"
    /\ chip.internal_soc >= MAX17048_BATTERY_FULL

\* C11: the step of the SC branch after max17048_get_soc issues a write of
\* the full configured valert word to VALRT when internal_soc >= 1 and no
\* VALRT write when internal_soc < 1; when the write has succeeded the
\* register holds the configured word again.
C11_SocChangeRestoresValrt ==
    [][/\ (pc["irq"] = <<"sc", "after">> /\ pc'["irq"] # pc["irq"]) =>
             IF chip.internal_soc >= 1
             THEN /\ pc'["irq"] = <<"sc", "valrt">>
                  /\ req'["irq"].kind = "write"
                  /\ req'["irq"].reg = MAX17048_VALRT
                  /\ req'["irq"].val = mdata.valert
             ELSE /\ pc'["irq"] = <<"irq", "clear_status">>
                  /\ req'["irq"].reg = MAX17048_STATUS
       /\ (pc["irq"] = <<"sc", "valrt">> /\ ret'.flow = "irq"
             /\ ret'.val = 0) =>
             regs'[MAX17048_VALRT] = mdata.valert
       /\ pc'["irq"] = <<"sc", "valrt">> => pc["irq"] \in
             {<<"sc", "after">>, <<"sc", "valrt">>}]_vars

\* C11: the restoring write is in progress on a register the VL branch
\* has muted
C11_Witness ==
    /\ pc["irq"] = <<"sc", "valrt">>
    /\ phase["irq"] = "bus"
    /\ regs[MAX17048_VALRT] = mdata.valert % 256
    /\ regs[MAX17048_VALRT] # mdata.valert
    /\ chip.internal_soc >= 1

(***************************************************************************)
(* SpecPolicy: the sampler with every ascending policy table of at most    *)
(* MaxTable entries.                                                       *)
(***************************************************************************)
MaxTable == 2
PolicySocs == {30, 60}
PolicyValues == {0, 500, 900}

\* the ascending sequences of n SOC bounds
AscendingSocs(n) ==
    {t \in [1..n -> PolicySocs] : \A i, j \in 1..n : i <= j => t[i] <= t[j]}

\* a power table with a zero pattern of its own
PowerOf(values) ==
    [i \in 1..Len(values) |->
        IF values[i] = 0 THEN 3000 ELSE IF values[i] = 500 THEN 0 ELSE 6000]

PolicyData(socs, values) ==
    [PlatformData(TRUE) EXCEPT !.current_threshold_soc = socs,
                               !.current_threshold = values,
                               !.sysedp_throttle_soc = socs,
                               !.sysedp_throttle_power = PowerOf(values)]

\* raw MAX17048_SOC words for 10%, 30%, 45%, 60% and 70% in 18-bit mode
PolicySocRaws == {2560, 7680, 11520, 15360, 17920}

InitPolicy ==
    \E n \in 0..MaxTable :
      \E socs \in AscendingSocs(n), values \in [1..n -> PolicyValues] :
        InitRunning(ModelData(18), PolicyData(socs, values),
                    Env(PolicySocRaws, {20000}, {}, 0))

NextPolicy == Sampler \/ Locks

SpecPolicy == InitPolicy /\ [][NextPolicy]_vars

\* the entries whose SOC bound is >= isoc and whose value is nonzero
Matching(socs, values, isoc) ==
    {i \in 1..Len(socs) : socs[i] >= isoc /\ values[i] # 0}

\* the value of the first matching entry, or the default
Selected(socs, values, isoc, default) ==
    LET M == Matching(socs, values, isoc)
    IN IF M = {} THEN default
       ELSE values[CHOOSE i \in M : \A j \in M : i <= j]

\* C12: after the two policy steps of a sampler pass, current_threshold is
\* the value of the first table entry with bound >= internal_soc and a
\* nonzero value, else current_normal; a set_current_threshold() call
\* carries that value with min_cpu 1 for a matched entry and 2 for the
\* default; sysedp_throttle() is called with the power of the first such
\* entry of its table, else ULONG_MAX.
C12_PolicySelection ==
    pc["work"] = <<"work", "health">> =>
      LET isoc == chip.internal_soc
          M == Matching(pdata.current_threshold_soc,
                        pdata.current_threshold, isoc)
          sel == Selected(pdata.current_threshold_soc,
                          pdata.current_threshold, isoc,
                          pdata.current_normal)
      IN /\ Len(pdata.current_threshold_soc) > 0 =>
               chip.current_threshold = sel
         /\ event.threshold # 0 =>
               /\ event.threshold = sel
               /\ event.min_cpu = IF M = {} THEN 2 ELSE 1
         /\ event.power = Selected(pdata.sysedp_throttle_soc,
                                   pdata.sysedp_throttle_power, isoc,
                                   ULONG_MAX)

\* C12: table [(30,500),(60,900)] and internal_soc 45 have selected 900
\* with min_cpu 1
C12_Witness ==
    /\ pc["work"] = <<"work", "health">>
    /\ pdata.current_threshold_soc = <<30, 60>>
    /\ pdata.current_threshold = <<500, 900>>
    /\ chip.internal_soc = 45
    /\ chip.current_threshold = 900
    /\ event.threshold = 900
    /\ event.min_cpu = 1

(***************************************************************************)
(* SpecSoc: the sampler and the charger status callback, for both          *)
(* precision settings and the raw words around every boundary of           *)
(* max17048_get_soc.                                                       *)
(***************************************************************************)
PrecisionBits == {18, 19}
SocEdgeRaws == {0, 3839, 3840, 7679, 7680, 25599, 25600, 51199, 51200, 65535}

InitSoc ==
    \E b \in PrecisionBits :
      InitRunning(ModelData(b), PlatformData(FALSE),
                  Env(SocEdgeRaws, {20000}, {}, 0))

NextSoc == Sampler \/ StatusReport \/ Locks

SpecSoc == InitSoc /\ [][NextSoc]_vars

\* the raw word shifted right by 8 (18 bits) or by 9 (otherwise)
ShiftedSoc(bits, raw) ==
    IF bits = 18 THEN raw \div 256 ELSE raw \div 512

\* C13: a successful read of MAX17048_SOC in the sampler stores
\* internal_soc = raw >> 8 for 18 bits and raw >> 9 otherwise; the
\* derivation that follows gives soc 100, level Full, health Good and
\* status Full if it was Charging (else unchanged) for internal_soc >= 100;
\* soc = internal_soc, status = lasttime_status, health Dead, level
\* Critical for internal_soc < 15; and soc = internal_soc, status =
\* lasttime_status, health Good, level Normal otherwise.
C13_GetSocDerivation ==
    [][/\ (pc["work"] = <<"work", "soc">> /\ ret'.flow = "work"
                                          /\ ret'.val >= 0) =>
             chip'.internal_soc = ShiftedSoc(mdata.bits, ret'.val)
       /\ (pc["work"] = <<"work", "soc">> /\ ret'.flow = "work"
                                          /\ ret'.val < 0) =>
             chip'.internal_soc = chip.internal_soc
       /\ (pc'["work"] = <<"work", "after">> /\ pc["work"] # pc'["work"]) =>
             LET isoc == chip'.internal_soc
             IN /\ pc["work"] = <<"work", "soc_derive">> =>
                      isoc = chip.internal_soc
                /\ IF isoc >= 100
                   THEN /\ chip'.soc = 100
                        /\ chip'.capacity_level = "Full"
                        /\ chip'.health = "Good"
                        /\ chip'.status = IF chip.status = "Charging"
                                          THEN "Full" ELSE chip.status
                   ELSE IF isoc < 15
                   THEN /\ chip'.soc = isoc
                        /\ chip'.status = chip.lasttime_status
                        /\ chip'.health = "Dead"
                        /\ chip'.capacity_level = "Critical"
                   ELSE /\ chip'.soc = isoc
                        /\ chip'.status = chip.lasttime_status
                        /\ chip'.health = "Good"
                        /\ chip'.capacity_level = "Normal"]_vars

\* C13: a 19-bit raw word 51200 has given internal_soc 100 and promoted a
\* Charging battery to Full
C13_Witness ==
    /\ pc["work"] = <<"work", "after">>
    /\ mdata.bits = 19
    /\ chip.internal_soc = 100
    /\ chip.soc = 100
    /\ chip.status = "Full"
    /\ chip.lasttime_status = "Charging"
    /\ chip.capacity_level = "Full"

(***************************************************************************)
(* SpecAlertFair: SpecAlert with the scheduling of a threaded interrupt    *)
(* handler: the handler thread keeps running until it returns, and a       *)
(* mutex_lock() on a free mutex is eventually granted.                     *)
(***************************************************************************)
SpecAlertFair == SpecAlert /\ WF_vars(Alert) /\ WF_vars(Locks)

\* C14: every invocation of max17048_irq that has issued its STATUS read
\* reaches the CONFIG read of clear_irq, whatever the STATUS read, the flag
\* branches and the STATUS clear returned; when the CONFIG read succeeds
\* the handler writes CONFIG with the value read and only bit 0x0020
\* cleared.
C14_AlertReachesClearStep ==
    /\ (pc["irq"] = <<"irq", "status">>) ~>
           (pc["irq"] = <<"irq", "config_read">>)
    /\ [][(/\ pc["irq"] = <<"irq", "config_read">>
           /\ ret'.flow = "irq"
           /\ ret'.val >= 0) =>
             /\ pc'["irq"] = <<"irq", "config_write">>
             /\ req'["irq"].kind = "write"
             /\ req'["irq"].reg = MAX17048_CONFIG
             /\ req'["irq"].val =
                  ret'.val - ((ret'.val \div 32) % 2) * 32]_vars

\* C14: the handler is at the CONFIG read after a failed STATUS read
C14_Witness ==
    /\ pc["irq"] = <<"irq", "config_read">>
    /\ irq_val = U16(EIO)
    /\ faults = 1

(***************************************************************************)
(* SpecStatusFair: SpecStatus with the scheduling of the delayed work: a   *)
(* pending work item is eventually run by the workqueue, runs until it     *)
(* returns, and a mutex_lock() on a free mutex is eventually granted.      *)
(***************************************************************************)
SpecStatusFair == SpecStatus /\ WF_vars(Sampler) /\ WF_vars(Locks)

\* C15: with no suspend, remove or shutdown, every pass of max17048_work
\* ends with the next run scheduled, whatever transfers failed during the
\* pass, and the sampler runs infinitely often.
C15_SamplerRearms ==
    /\ [](pc["work"] # <<"work", "idle">> =>
            <>(pc["work"] = <<"work", "idle">> /\ work_pending))
    /\ []<>(pc["work"] # <<"work", "idle">>)
    /\ [][pc["work"] = <<"work", "finish">> /\ pc'["work"] # pc["work"] =>
            pc'["work"] = <<"work", "idle">> /\ work_pending']_vars

\* C15: a pass in which a transfer failed has ended with the work pending
C15_Witness ==
    /\ pc["work"] = <<"work", "idle">>
    /\ work_pending
    /\ faults = 1
    /\ chip.vcell # 0

\* the transactions of a complete model load: the unlock of
\* max17048_initialize and the steps of max17048_load_model_data
LoadSequence(m, ocv) ==
    <<Wr(MAX17048_UNLOCK, MAX17048_UNLOCK_VALUE),
      Rd(MAX17048_OCV),
      Blk(MAX17048_TABLE, TableBlock(m, 0)),
      Blk(MAX17048_TABLE + 16, TableBlock(m, 1)),
      Blk(MAX17048_TABLE + 32, TableBlock(m, 2)),
      Blk(MAX17048_TABLE + 48, TableBlock(m, 3)),
      Wr(MAX17048_OCV, m.ocvtest),
      Blk(MAX17048_RCOMPSEG1, RcompSegTable(m.rcomp_seg)),
      Blk(MAX17048_RCOMPSEG2, RcompSegTable(m.rcomp_seg)),
      Wr(MAX17048_HIBRT, 0),
      Wr(MAX17048_UNLOCK, 0),
      Rd(MAX17048_SOC),
      Wr(MAX17048_UNLOCK, MAX17048_UNLOCK_VALUE),
      Wr(MAX17048_OCV, ocv)>>

\* while the load runs, and when it has returned success, the log after
\* the version read is a prefix of the fixed sequence
LoadLogIsPrefix ==
    (pc["probe"][1] = "load" \/ (pc["probe"] = <<"init", "config">>
                                   /\ probe.load_exit = "ok")) =>
      /\ Len(buslog) <= 15
      /\ \A i \in 2..Len(buslog) :
            buslog[i] = LoadSequence(mdata, probe.ocv)[i - 1]
      /\ pc["probe"] = <<"init", "config">> => Len(buslog) = 15

\* C16: the transactions of the model load are a prefix of the fixed
\* sequence, with the final OCV write carrying the value read at the
\* start, and no load step is issued after a failed step, a failed
\* initial unlock included.
C16_LoadStopsAtFirstFailure ==
    /\ LoadLogIsPrefix
    /\ LoadFailed => pc["probe"][1] # "load"
    /\ probe.init_fault = "unlock" => pc["probe"][1] # "load"

(***************************************************************************)
(* SpecInitQuery: max17048_probe with a caller of the exported             *)
(* max17048_check_battery.                                                 *)
(***************************************************************************)
NextInitQuery == Probe \/ VersionQuery \/ Locks

SpecInitQuery == InitInit /\ [][NextInitQuery]_vars

\* C17: from the start of max17048_initialize until it returns, no flow
\* other than the initialization has a bus transaction in progress.
C17_InitializeExclusive ==
    pc["probe"][1] \in {"init", "load"} =>
      \A f \in Flows \ {"probe"} : phase[f] # "bus"

\* C18: in a pass of max17048_irq a failed STATUS read runs no flag
\* branch, changes no field of the chip structure and goes straight to
\* the CONFIG read of clear_irq; a failed CONFIG read is followed by no
\* CONFIG write.
C18_FailedReadNotUsed ==
    [][/\ (pc["irq"] = <<"irq", "status">> /\ ret'.flow = "irq"
                                           /\ ret'.val < 0) =>
             /\ chip' = chip
             /\ pc'["irq"] = <<"irq", "config_read">>
       /\ (pc["irq"] = <<"irq", "config_read">> /\ ret'.flow = "irq"
                                                /\ ret'.val < 0) =>
             /\ pc'["irq"] = <<"irq", "idle">>
             /\ req'["irq"].kind # "write"]_vars

(***************************************************************************)
(* SpecConfig: the sampler with its thermal compensator and the alert      *)
(* handler on a bus without failures: the two read-modify-write sequences  *)
(* on MAX17048_CONFIG.                                                     *)
(***************************************************************************)
InitConfig ==
    InitRunning(ModelData(18), PlatformData(FALSE),
                Env({2560}, Temps, AlertFlags, 0))

NextConfig == Sampler \/ Alert \/ Locks \/ ChipAlert

SpecConfig == InitConfig /\ [][NextConfig]_vars

\* the sampler has run its compensator, both flows have returned, and the
\* chip has no alert outstanding
ConfigSettled ==
    /\ pc["work"] = <<"work", "idle">>
    /\ pc["irq"] = <<"irq", "idle">>
    /\ ~irq_pending
    /\ regs[MAX17048_STATUS] = 0
    /\ chip.lasttime_temperature # 0

\* C19: when a sampler pass with the thermal compensator and an alert
\* pass have both completed successfully, MAX17048_CONFIG has the ALRT
\* bit clear and its upper byte is the compensator's new RCOMP.
C19_ConfigUpdatesKept ==
    ConfigSettled =>
      /\ Bit(regs[MAX17048_CONFIG], MAX17048_CONFIG_ALRT) = 0
      /\ regs[MAX17048_CONFIG] \div 256 =
             NewRcomp(mdata, chip.lasttime_temperature)

\* C20: in max17048_update_rcomp a successful CONFIG read is followed by
\* one CONFIG write whose low byte is the low byte read and whose upper
\* byte is the new RCOMP; a failed CONFIG read is followed by no write;
\* after the write, failed or not, and after a failed read, the sampler
\* goes on to the VCELL read and then to the SOC read.
C20_RcompReadModifyWrite ==
    [][/\ (pc["work"] = <<"work", "rcomp_read">> /\ ret'.flow = "work") =>
             IF ret'.val < 0
             THEN /\ pc'["work"] = <<"work", "vcell">>
                  /\ req'["work"] = Rd(MAX17048_VCELL)
             ELSE /\ pc'["work"] = <<"work", "rcomp_write">>
                  /\ req'["work"].kind = "write"
                  /\ req'["work"].reg = MAX17048_CONFIG
                  /\ req'["work"].val % 256 = ret'.val % 256
                  /\ req'["work"].val \div 256 =
                        RcompExpected(mdata, chip.temperature)
       /\ (pc["work"] = <<"work", "rcomp_write">> /\ ret'.flow = "work") =>
             /\ pc'["work"] = <<"work", "vcell">>
             /\ req'["work"] = Rd(MAX17048_VCELL)
       /\ (pc["work"] = <<"work", "vcell">> /\ ret'.flow = "work") =>
             /\ pc'["work"] = <<"work", "soc">>
             /\ req'["work"] = Rd(MAX17048_SOC)
       /\ pc'["work"] = <<"work", "rcomp_write">> =>
             pc["work"] \in {<<"work", "rcomp_read">>,
                             <<"work", "rcomp_write">>}]_vars

\* C20: a CONFIG transfer of the compensator has failed, CONFIG is as it
\* was, and the sampler is at its VCELL read
C20_Witness ==
    /\ pc["work"] = <<"work", "vcell">>
    /\ ret = [flow |-> "work", val |-> EIO]
    /\ req["work"] = Rd(MAX17048_VCELL)
    /\ regs[MAX17048_CONFIG] = InitConfigWord(mdata)

\* C21: max17048_shutdown disables the interrupt, then cancels and awaits
\* the sampler, then sets shutdown_complete: once the flag is set no
\* sampler pass and no alert pass is in progress, the work is not pending
\* and the interrupt is disabled, so none starts afterwards.
C21_ShutdownQuiesces ==
    /\ pc["ext"] \in {<<"sd", "sync_irq">>, <<"sd", "cancel">>,
                      <<"sd", "flag">>} => ~irq_enabled
    /\ pc["ext"] = <<"sd", "cancel">> => pc["irq"] = <<"irq", "idle">>
    /\ pc["ext"] = <<"sd", "flag">> =>
          /\ pc["irq"] = <<"irq", "idle">>
          /\ pc["work"] = <<"work", "idle">>
          /\ ~work_pending
    /\ chip.shutdown_complete =>
          /\ pc["work"] = <<"work", "idle">>
          /\ pc["irq"] = <<"irq", "idle">>
          /\ ~work_pending
          /\ ~work_canceling
          /\ ~irq_enabled

\* C21: shutdown has returned after a sampler pass ran, and an alert the
\* chip raised since is not delivered
C21_Witness ==
    /\ chip.shutdown_complete
    /\ pc["ext"] = <<"ext", "idle">>
    /\ chip.vcell # 0
    /\ irq_pending

(***************************************************************************)
(* SpecSuspend: the sampler with max17048_suspend and max17048_resume on   *)
(* a bus that can fail.                                                    *)
(***************************************************************************)
InitSuspend ==
    InitRunning(ModelData(18), PlatformData(FALSE),
                Env({2560}, {20000}, {}, MaxFaults))

NextSuspend == Sampler \/ PowerManagement \/ Locks

SpecSuspend == InitSuspend /\ [][NextSuspend]_vars

\* C22: when max17048_resume returns after a max17048_suspend that
\* returned 0, the sampler is armed (its work is pending, or a pass is
\* running and will re-arm it), whatever the register transactions of the
\* two calls returned.
C22_ResumeRearmsSampler ==
    [][(pc["ext"][1] = "re" /\ pc'["ext"] = <<"ext", "idle">>) =>
          (work_pending' \/ pc'["work"] # <<"work", "idle">>)]_vars

\* C23: when a sampler pass ends with no max17048_battery_status call
\* half-way, the shadows equal the current values: lasttime_soc = soc and
\* lasttime_status = status.
C23_ShadowsEqualAtEndOfPass ==
    [][(/\ pc["work"] = <<"work", "finish">>
        /\ pc'["work"] = <<"work", "idle">>
        /\ pc["ext"] = <<"ext", "idle">>) =>
          /\ chip'.lasttime_soc = chip'.soc
          /\ chip'.lasttime_status = chip'.status]_vars

\* the threshold policy runs: callback, table and current_normal are set
PolicyRuns ==
    /\ pdata.set_current_threshold
    /\ Len(pdata.current_threshold_soc) > 0
    /\ pdata.current_normal # 0

\* the threshold selected for the internal_soc of the state
SelectedNow ==
    Selected(pdata.current_threshold_soc, pdata.current_threshold,
             chip.internal_soc, pdata.current_normal)

\* the step of the sampler that runs max17048_set_current_threshold
PolicyStep ==
    /\ pc["work"] = <<"work", "after">>
    /\ pc'["work"] = <<"work", "health">>
    /\ PolicyRuns

\* C24 (as stated): set_current_threshold() is called if and only if the
\* selected threshold differs from lasttime_current_threshold, and after
\* the step lasttime_current_threshold is the selected threshold.
C24_ShadowAlwaysUpdated ==
    [][PolicyStep =>
         /\ (event'.threshold # 0) <=>
               (SelectedNow # chip.lasttime_current_threshold)
         /\ chip'.lasttime_current_threshold = SelectedNow]_vars

\* C24 (amended): set_current_threshold() is called if and only if the
\* selected threshold differs from lasttime_current_threshold; after the
\* step lasttime_current_threshold is the selected threshold unless the
\* callback was called and returned an error, and then it is unchanged.
C24_ShadowUpdatedOnSuccess ==
    [][PolicyStep =>
         /\ (event'.threshold # 0) <=>
               (SelectedNow # chip.lasttime_current_threshold)
         /\ event'.threshold # 0 => event'.threshold = SelectedNow
         /\ chip'.lasttime_current_threshold =
               IF event'.threshold # 0 /\ event'.cb_ret < 0
               THEN chip.lasttime_current_threshold
               ELSE SelectedNow]_vars

\* C24: the callback was called with 900 and failed; the shadow keeps 1200
C24_Witness ==
    /\ pc["work"] = <<"work", "health">>
    /\ PolicyRuns
    /\ event.threshold = 900
    /\ event.cb_ret < 0
    /\ chip.current_threshold = 900
    /\ chip.lasttime_current_threshold = 1200

\* C25: when max17048_battery_status returns, status and lasttime_status
\* both hold the value it reported (ext_val), also when a sampler pass
\* runs concurrently.
C25_ReportedStatusHolds ==
    [][(pc["ext"] = <<"bs", "shadow">> /\ pc'["ext"] = <<"ext", "idle">>) =>
          /\ chip'.status = ext_val
          /\ chip'.lasttime_status = ext_val]_vars

(***************************************************************************)
(* SpecFlags: the alert handler with a chip that raises the handled flags  *)
(* VL, HD, SC and the flag VH, which is only logged.                       *)
(***************************************************************************)
InitFlags ==
    InitRunning(ModelData(18), PlatformData(TRUE),
                Env({2560}, {20000},
                    AlertFlags \cup {MAX17048_STATUS_VH}, MaxFaults))

SpecFlags == InitFlags /\ [][NextAlert]_vars

\* where max17048_irq goes after the VL branch for the status word v
AfterVoltageLow(v) ==
    IF Bit(v, MAX17048_STATUS_HD) = 1 THEN <<"hd", "vcell">>
    ELSE IF Bit(v, MAX17048_STATUS_SC) = 1 THEN <<"sc", "vcell">>
    ELSE <<"irq", "clear_status">>

\* where max17048_irq goes after the HD branch for the status word v
AfterSocLow(v) ==
    IF Bit(v, MAX17048_STATUS_SC) = 1 THEN <<"sc", "vcell">>
    ELSE <<"irq", "clear_status">>

\* C26: in a pass of max17048_irq whose STATUS read succeeded the set
\* flags are handled once each in the order VL, HD, SC; a branch runs only
\* for a set flag; STATUS is written to zero after the last branch and
\* before the CONFIG read; the other bits of the status word change no
\* field and cause no register write.
C26_FlagsInFixedOrder ==
    [][/\ (pc["irq"] = <<"irq", "status">> /\ ret'.flow = "irq"
                                           /\ ret'.val >= 0) =>
             IF Bit(ret'.val, MAX17048_STATUS_VL) = 1
             THEN pc'["irq"] = <<"vl", "valrt">>
             ELSE /\ pc'["irq"] = AfterVoltageLow(ret'.val)
                  /\ chip' = chip
       /\ (pc["irq"] = <<"vl", "valrt">> /\ ret'.flow = "irq") =>
             /\ pc'["irq"] = AfterVoltageLow(irq_val)
             /\ chip' = chip
       /\ (pc["irq"] = <<"hd", "after">> /\ pc'["irq"] # pc["irq"]) =>
             pc'["irq"] = AfterSocLow(irq_val)
       /\ (pc["irq"] = <<"sc", "after">> /\ pc'["irq"] # pc["irq"]) =>
             pc'["irq"] \in {<<"sc", "valrt">>, <<"irq", "clear_status">>}
       /\ (pc["irq"] = <<"sc", "valrt">> /\ ret'.flow = "irq") =>
             pc'["irq"] = <<"irq", "clear_status">>
       /\ (pc'["irq"] # pc["irq"] /\ pc'["irq"][1] = "vl") =>
             /\ pc["irq"] = <<"irq", "status">>
             /\ Bit(irq_val', MAX17048_STATUS_VL) = 1
       /\ (pc'["irq"] = <<"hd", "vcell">> /\ pc["irq"] # pc'["irq"]) =>
             /\ pc["irq"] \in {<<"irq", "status">>, <<"vl", "valrt">>}
             /\ Bit(irq_val', MAX17048_STATUS_HD) = 1
       /\ (pc'["irq"] = <<"sc", "vcell">> /\ pc["irq"] # pc'["irq"]) =>
             /\ pc["irq"] \in {<<"irq", "status">>, <<"vl", "valrt">>,
                                <<"hd", "after">>}
             /\ Bit(irq_val', MAX17048_STATUS_SC) = 1
       /\ (pc'["irq"] = <<"irq", "clear_status">>
                                      /\ pc["irq"] # pc'["irq"]) =>
             /\ pc["irq"] \in {<<"irq", "status">>, <<"vl", "valrt">>,
                                <<"hd", "after">>, <<"sc", "after">>,
                                <<"sc", "valrt">>}
             /\ req'["irq"] = Wr(MAX17048_STATUS, 0)
       /\ (pc["irq"] = <<"irq", "clear_status">> /\ ret'.flow = "irq") =>
             /\ pc'["irq"] = <<"irq", "config_read">>
             /\ req'["irq"] = Rd(MAX17048_CONFIG)
       /\ (pc'["irq"] = <<"irq", "config_read">>
                                      /\ pc["irq"] # pc'["irq"]) =>
             pc["irq"] \in {<<"irq", "clear_status">>, <<"irq", "status">>}
       /\ (pc'["irq"] = <<"irq", "config_read">>
                                /\ pc["irq"] = <<"irq", "status">>) =>
             ret'.val < 0]_vars

\* C26: a pass read VL, HD, SC and VH together, has run the three
\* branches and is at the STATUS clear
C26_Witness ==
    /\ pc["irq"] = <<"irq", "clear_status">>
    /\ irq_val = MAX17048_STATUS_VL + MAX17048_STATUS_HD
                    + MAX17048_STATUS_SC + MAX17048_STATUS_VH
    /\ chip.health = "Dead"
    /\ chip.vcell # 0

\* C27: when no sampler pass and no alert pass is in progress and a
\* sampler pass has completed with the current temperature, a temperature
\* above MAX17048_BATTERY_HOT has health Overheat and one below
\* MAX17048_BATTERY_COLD has health Cold.
C27_HealthFollowsTemperature ==
    (pc["work"] = <<"work", "idle">> /\ pc["irq"] = <<"irq", "idle">>) =>
      /\ chip.temperature > MAX17048_BATTERY_HOT =>
            chip.health = "Overheat"
      /\ chip.temperature < MAX17048_BATTERY_COLD =>
            chip.health = "Cold"

\* C28: the write of zero to MAX17048_STATUS by max17048_irq clears no
\* flag that is not in the status word the pass read and processed.
C28_ClearOnlyHandledFlags ==
    [][(/\ pc["irq"] = <<"irq", "clear_status">>
        /\ ret'.flow = "irq"
        /\ ret'.val = 0) =>
          \A b \in env.flags :
            Bit(regs[MAX17048_STATUS], b) = 1 => Bit(irq_val, b) = 1]_vars

(***************************************************************************)
(* SpecShutdown: the sampler, compensating for a temperature of 61000,     *)
(* and max17048_shutdown on a bus without failures.                        *)
(***************************************************************************)
InitShutdown ==
    InitRunning(ModelData(18), PlatformData(FALSE),
                Env({2560}, {61000}, {}, 0))

NextShutdown == Sampler \/ Teardown \/ Locks

SpecShutdown == InitShutdown /\ [][NextShutdown]_vars

\* C29: when max17048_shutdown has returned with its CONFIG read and
\* write having succeeded, the upper byte of MAX17048_CONFIG is the
\* model's base rcomp.
C29_ShutdownResetsRcomp ==
    (chip.shutdown_complete /\ pc["ext"] = <<"ext", "idle">>) =>
      regs[MAX17048_CONFIG] \div 256 = mdata.rcomp

====
